---- MODULE Spec2Model ----
(***************************************************************************)
(* A model of the strava-sdk client library: the outbound rate limiter     *)
(* (createRateLimiter and the StravaApi operations scheduled through it),  *)
(* the retry engine (retryWithBackoff) and the token refresh guard         *)
(* (StravaApi.ensureValidToken).                                           *)
(*                                                                         *)
(* Each component has its own specification over the shared variables:     *)
(*   Spec / FairSpec   the rate limiter                                    *)
(*   RetrySpec         retryWithBackoff                                    *)
(*   TokenSpec         ensureValidToken                                    *)
(***************************************************************************)
EXTENDS Integers, Sequences, FiniteSets, TLC

VARIABLES
    \* ---- rate limiter (one StravaApi instance) ----
    config,         \* the RateLimitConfig the limiter was created with
    nSubmitted,     \* number of limiter.schedule calls made so far
    status,         \* job -> "NONE" | "QUEUED" | "RUNNING" | "EXECUTING" | "DONE"
    result,         \* job -> "pending" | "resolved" | "rejected"
    queue,          \* the limiter's queue of waiting jobs
    reservoir,      \* the limiter's reservoir
    running,        \* number of registered, unfinished jobs
    nextRequestIn,  \* max(nextRequest - now, 0)
    startIn,        \* job -> time left on the timer that starts it
    sinceRefresh,   \* now - lastReservoirRefresh (saturating)
    shortUsed,      \* jobs admitted since the last reservoir refresh
    dailySince,     \* time since the start of the current daily window
    dailyUsed,      \* jobs admitted in the current daily window
    sinceStart,     \* time since the last job started (saturating at minTime)
    recentStarts,   \* i -> number of jobs started i-1 time units ago (kept by the
                    \* specification of the rolling window only)
    \* ---- retryWithBackoff (one call) ----
    retry,
    \* ---- ensureValidToken (one call) ----
    token,
    \* ---- StravaWebhooks handlers and one processEvent call ----
    webhook,
    \* ---- validateWebhookVerification (one call) ----
    verification,
    \* ---- classifyError (one call) ----
    classified,
    \* ---- the body of one StravaApi.getActivity call ----
    api,
    \* ---- StravaWebhooks.createSubscription (one call) ----
    subscription,
    \* ---- calculateRetryDelay / getRetryDelay (one call) ----
    backoff,
    \* ---- StravaClient.getActivityWithRefresh / updateActivityWithRefresh ----
    clock,          \* Date.now()
    storage,        \* athlete id -> the stored token record
    writes,         \* the saveTokens calls made, in order
    clientCalls     \* caller -> its call of one of the two methods

limiterVars == <<config, nSubmitted, status, result, queue, reservoir,
                 running, nextRequestIn, startIn, sinceRefresh, shortUsed,
                 dailySince, dailyUsed, sinceStart, recentStarts>>
clientVars == <<clock, storage, writes, clientCalls>>
furtherVars == <<backoff, clientVars>>
laterVars == <<api, subscription, furtherVars>>
otherVars == <<webhook, verification, classified, laterVars>>
vars == <<limiterVars, retry, token, otherVars>>

Min(a, b) == IF a <= b THEN a ELSE b
Max(a, b) == IF a >= b THEN a ELSE b

(***************************************************************************)
(* Bounds of the model.                                                    *)
(***************************************************************************)
MaxJobs == 3            \* limiter.schedule calls per behaviour
MaxRequests == 3        \* shortTerm.requests ranges over 1..MaxRequests
MaxDailyRequests == 2   \* daily.requests ranges over 1..MaxDailyRequests
MaxMinTime == 1         \* minTime ranges over 0..MaxMinTime (in ticks)
ShortPer == 2           \* shortTerm.per, in ticks

DailyPer == ShortPer + ShortPer   \* daily.per, in ticks

Jobs == 1..MaxJobs

(***************************************************************************)
(* The rate limiter.  createRateLimiter builds a Bottleneck limiter; the   *)
(* model follows the limiter's local datastore: a job is queued, then      *)
(* registered (RUNNING) when the concurrency and reservoir conditions      *)
(* allow, started by a timer after the minTime spacing (EXECUTING) and     *)
(* freed when its promise settles (DONE).                                  *)
(***************************************************************************)

\* The operations of StravaApi that call this.limiter.schedule.
Operations ==
    {"getActivity", "listAthleteActivities", "getAthleteStats",
     "getActivityStreams", "updateActivity"}

\* maxConcurrent: 1
maxConcurrentTwo == 1 + 1
maxConcurrent == 1

\* Math.floor(limits.shortTerm.requests * 0.9)
Reservoir(requests) == (requests * 9) \div 10

\* reservoirRefreshAmount: Math.floor(limits.shortTerm.requests * 0.9)
ReservoirRefreshAmount(requests) == (requests * 9) \div 10

\* reservoirRefreshInterval: limits.shortTerm.per
reservoirRefreshInterval == ShortPer

\* The limiter's state as one record, so that draining can be iterated.
Limiter ==
    [status |-> status, queue |-> queue, reservoir |-> reservoir,
     running |-> running, nextRequestIn |-> nextRequestIn,
     startIn |-> startIn, shortUsed |-> shortUsed, dailyUsed |-> dailyUsed]

\* The limiter's capacity check for a job of weight 1.
ConditionsCheck(L) == 1 <= Min(maxConcurrent - L.running, L.reservoir)

\* The job the limiter takes next from its queue: the oldest one.
NextJobNewest(q) == q[Len(q)]
NextJob(q) == Head(q)

Without(q, j) == SelectSeq(q, LAMBDA x : x # j)

\* A registration that does not push the next start time by minTime.
RegisterWithoutSpacing(L) ==
    LET j    == NextJob(L.queue)
        wait == L.nextRequestIn
    IN  [L EXCEPT !.queue = Without(@, j),
                  !.status[j] = "RUNNING",
                  !.running = @ + 1,
                  !.reservoir = @ - 1,
                  !.nextRequestIn = wait,
                  !.startIn[j] = wait,
                  !.shortUsed = @ + 1,
                  !.dailyUsed = @ + 1]

\* Registering the next queued job: it occupies a concurrency slot, consumes
\* the reservoir and gets a start timer that keeps minTime between starts.
Register(L) ==
    LET j    == NextJob(L.queue)
        wait == L.nextRequestIn
    IN  [L EXCEPT !.queue = Without(@, j),
                  !.status[j] = "RUNNING",
                  !.running = @ + 1,
                  !.reservoir = @ - 1,
                  !.nextRequestIn = wait + config.minTime,
                  !.startIn[j] = wait,
                  !.shortUsed = @ + 1,
                  !.dailyUsed = @ + 1]

RECURSIVE DrainAll(_)
DrainAll(L) ==
    IF Len(L.queue) > 0 /\ ConditionsCheck(L)
    THEN DrainAll(Register(L))
    ELSE L

SetLimiter(L) ==
    /\ status' = L.status
    /\ queue' = L.queue
    /\ reservoir' = L.reservoir
    /\ running' = L.running
    /\ nextRequestIn' = L.nextRequestIn
    /\ startIn' = L.startIn
    /\ shortUsed' = L.shortUsed
    /\ dailyUsed' = L.dailyUsed

Configs ==
    [shortTermRequests : 1..MaxRequests,
     dailyRequests : 1..MaxDailyRequests,
     minTime : 0..MaxMinTime]

RetryOff == [pc |-> "off"]
TokenOff == [pc |-> "off"]
WebhookOff == [pc |-> "off"]
VerificationOff == [pc |-> "off"]
ClassifiedOff == [pc |-> "off"]
ApiOff == [pc |-> "off"]
SubscriptionOff == [pc |-> "off"]
BackoffOff == [pc |-> "off"]
StravaClientOff ==
    /\ clock = 0
    /\ storage = <<>>
    /\ writes = <<>>
    /\ clientCalls = <<>>
FurtherOff ==
    /\ backoff = BackoffOff
    /\ StravaClientOff
LaterOff ==
    /\ api = ApiOff
    /\ subscription = SubscriptionOff
    /\ FurtherOff
OthersOff ==
    /\ webhook = WebhookOff
    /\ verification = VerificationOff
    /\ classified = ClassifiedOff
    /\ LaterOff

\* The limiter as createRateLimiter(c) leaves it: nothing scheduled yet.
LimiterCreated(c) ==
    /\ config = c
    /\ nSubmitted = 0
    /\ status = [j \in Jobs |-> "NONE"]
    /\ result = [j \in Jobs |-> "pending"]
    /\ queue = <<>>
    /\ reservoir = Reservoir(c.shortTermRequests)
    /\ running = 0
    /\ nextRequestIn = 0
    /\ startIn = [j \in Jobs |-> 0]
    /\ sinceRefresh = 0
    /\ shortUsed = 0
    /\ dailySince = 0
    /\ dailyUsed = 0
    /\ sinceStart = c.minTime
    /\ recentStarts = [i \in 1..ShortPer |-> 0]

Init ==
    /\ \E c \in Configs : LimiterCreated(c)
    /\ retry = RetryOff
    /\ token = TokenOff
    /\ OthersOff

\* API operation op calls this.limiter.schedule(...).  The five operations
\* submit their request in the same way, so the job does not record op.
Schedule(op) ==
    /\ nSubmitted < MaxJobs
    /\ LET j == nSubmitted + 1
           L == [Limiter EXCEPT !.queue = Append(@, j), !.status[j] = "QUEUED"]
       IN  /\ nSubmitted' = j
           /\ SetLimiter(DrainAll(L))
    /\ UNCHANGED <<config, result, sinceRefresh, dailySince, sinceStart,
                   recentStarts, retry, token, otherVars>>

\* The start timer of a registered job fires: the operation begins.
Begins(j) ==
    /\ status[j] = "RUNNING"
    /\ startIn[j] = 0
    /\ status' = [status EXCEPT ![j] = "EXECUTING"]
    /\ sinceStart' = 0
    /\ UNCHANGED <<config, nSubmitted, result, queue, reservoir, running,
                   nextRequestIn, startIn, sinceRefresh, shortUsed, dailySince,
                   dailyUsed, retry, token, otherVars>>

Execute(j) == Begins(j) /\ UNCHANGED recentStarts

\* A limiter that frees the job only when its promise is fulfilled.
CompleteHoldingRejected(j, outcome) ==
    /\ status[j] = "EXECUTING"
    /\ result' = [result EXCEPT ![j] = outcome]
    /\ LET L == [Limiter EXCEPT !.status[j] = "DONE", !.running = @ - 1]
       IN  IF outcome = "rejected"
           THEN SetLimiter([Limiter EXCEPT !.status[j] = "DONE"])
           ELSE SetLimiter(DrainAll(L))
    /\ UNCHANGED <<config, nSubmitted, sinceRefresh, dailySince, sinceStart,
                   recentStarts, retry, token, otherVars>>

\* The operation's promise settles: the limiter frees the job and drains.
Complete(j, outcome) ==
    /\ status[j] = "EXECUTING"
    /\ result' = [result EXCEPT ![j] = outcome]
    /\ LET L == [Limiter EXCEPT !.status[j] = "DONE", !.running = @ - 1]
       IN  SetLimiter(DrainAll(L))
    /\ UNCHANGED <<config, nSubmitted, sinceRefresh, dailySince, sinceStart,
                   recentStarts, retry, token, otherVars>>

\* The limiter's heartbeat finds the refresh interval elapsed.
Refresh ==
    /\ sinceRefresh >= reservoirRefreshInterval
    /\ sinceRefresh' = 0
    /\ LET L == [Limiter EXCEPT
                    !.reservoir = ReservoirRefreshAmount(config.shortTermRequests),
                    !.shortUsed = 0]
       IN  SetLimiter(DrainAll(L))
    /\ UNCHANGED <<config, nSubmitted, result, dailySince, sinceStart,
                   recentStarts, retry, token, otherVars>>

\* One unit of time passes.
Passes ==
    /\ sinceRefresh' = Min(sinceRefresh + 1, reservoirRefreshInterval)
    /\ nextRequestIn' = Max(nextRequestIn - 1, 0)
    /\ startIn' = [j \in Jobs |-> Max(startIn[j] - 1, 0)]
    /\ sinceStart' = Min(sinceStart + 1, config.minTime)
    /\ IF dailySince + 1 >= DailyPer
       THEN dailySince' = 0 /\ dailyUsed' = 0
       ELSE dailySince' = dailySince + 1 /\ dailyUsed' = dailyUsed
    /\ UNCHANGED <<config, nSubmitted, status, result, queue, reservoir,
                   running, shortUsed, retry, token, otherVars>>

Tick == Passes /\ UNCHANGED recentStarts

Next ==
    \/ \E op \in Operations : Schedule(op)
    \/ \E j \in Jobs : Execute(j)
    \/ \E j \in Jobs : \E outcome \in {"resolved", "rejected"} : Complete(j, outcome)
    \/ Refresh
    \/ Tick

Spec == Init /\ [][Next]_vars

\* Every executing operation terminates, timers fire and time advances.
FairSpec ==
    /\ Spec
    /\ WF_vars(Tick)
    /\ WF_vars(Refresh)
    /\ \A j \in Jobs : WF_vars(Execute(j))
    /\ \A j \in Jobs : WF_vars(\E outcome \in {"resolved", "rejected"} : Complete(j, outcome))

(***************************************************************************)
(* Claims about the rate limiter (checked under Spec and FairSpec).        *)
(***************************************************************************)

Started(j) == status[j] \in {"EXECUTING", "DONE"}

\* C1: among the operations submitted through the limiter of one StravaApi
\* instance, at most one is executing at any instant.
C1_AtMostOneInFlight ==
    Cardinality({j \in Jobs : status[j] = "EXECUTING"}) <= 1

\* One operation is in flight while another one, submitted concurrently, waits.
C1_Witness ==
    \E i, j \in Jobs : status[i] = "EXECUTING" /\ status[j] = "QUEUED"

\* The short window never admits more than its quota, whatever the quota is.
ShortWindowWithinQuota ==
    /\ shortUsed <= Reservoir(config.shortTermRequests)
    /\ reservoir >= 0

\* A request that finds the window exhausted is neither rejected nor executed:
\* it stays in the queue, in submission order.
ExhaustedWindowQueues ==
    \A j \in Jobs :
        status[j] = "QUEUED" =>
            /\ \E k \in 1..Len(queue) : queue[k] = j
            /\ result[j] = "pending"

\* C2: a window with quota Q admits Q requests and queues the (Q+1)-th until
\* the window rolls over, after which that request executes; for the short
\* window Q = floor(0.9 * shortTerm.requests).
C2_QueuedUntilRollover ==
    /\ [](shortUsed <= Reservoir(config.shortTermRequests))
    /\ \A j \in Jobs :
          (status[j] = "QUEUED" /\ reservoir = 0 /\ running = 0) ~> Started(j)

\* C3: in any daily window the number of admitted operations never exceeds
\* config.daily.requests.
C3_DailyQuotaRespected == dailyUsed <= config.dailyRequests

\* C4: operations start executing in the order in which they were submitted
\* (job identifiers are assigned in submission order).
C4_StartInSubmissionOrder ==
    \A i, j \in Jobs : (i < j /\ Started(j)) => Started(i)

\* A later operation has started after an earlier one finished, with a third
\* one still waiting behind it.
C4_Witness ==
    \E i, j, k \in Jobs :
        /\ i < j /\ j < k
        /\ status[i] = "DONE" /\ status[j] = "EXECUTING" /\ status[k] = "QUEUED"

\* C5: every operation submitted to the limiter is eventually executed,
\* provided executing operations terminate and time advances, for every
\* shortTerm.requests >= 1.
C5_EventuallyExecuted ==
    \A j \in Jobs : (status[j] # "NONE") ~> (status[j] = "DONE")

(***************************************************************************)
(* The retry engine: one call of retryWithBackoff(fn, options).            *)
(***************************************************************************)

MaxAttempts == 3        \* options.maxAttempts ranges over -1..MaxAttempts
MaxDelays == 3          \* options.delays has at most MaxDelays entries

\* The errors fn may reject with, and the error a throwing onRetry raises.
Errors == {"e1", "e2"}
OnRetryError == "onRetryError"
Undefined == "undefined"

\* A delay that getRetryDelay does not have: null.
Null == 0 - 1

\* options.delays: left out, or the sequence 10, 20, ... of a given length.
DelayUnit == 10
DelaysOfLength(n) == [i \in 1..n |-> DelayUnit * i]
DelayOptions ==
    {[configured |-> FALSE, seq |-> <<>>]}
        \cup {[configured |-> TRUE, seq |-> DelaysOfLength(n)] : n \in 0..MaxDelays}

\* 2^n
RECURSIVE Pow2(_)
Pow2(n) == IF n <= 0 THEN 1 ELSE 2 * Pow2(n - 1)

\* calculateRetryDelay(attemptNumber, baseDelay = 1000, maxDelay = 60000)
DefaultBaseDelay == 1000
DefaultMaxDelay == 60000
calculateRetryDelayUncapped(attemptNumber, baseDelay, maxDelay) ==
    baseDelay * Pow2(attemptNumber)
calculateRetryDelay(attemptNumber, baseDelay, maxDelay) ==
    Min(baseDelay * Pow2(attemptNumber), maxDelay)

\* getRetryDelay(attemptNumber, configuredDelays)
getRetryDelayFallback(attemptNumber, configuredDelays) ==
    IF ~configuredDelays.configured \/ attemptNumber >= Len(configuredDelays.seq)
    THEN calculateRetryDelay(attemptNumber, DefaultBaseDelay, DefaultMaxDelay)
    ELSE configuredDelays.seq[attemptNumber + 1]
getRetryDelay(attemptNumber, configuredDelays) ==
    IF ~configuredDelays.configured \/ Len(configuredDelays.seq) = 0
    THEN calculateRetryDelay(attemptNumber, DefaultBaseDelay, DefaultMaxDelay)
    ELSE IF attemptNumber >= Len(configuredDelays.seq)
         THEN Null
         ELSE configuredDelays.seq[attemptNumber + 1]

\* The loop condition: attempt < maxAttempts
LoopContinuesOneShort(attempt, maxAttempts) == attempt < maxAttempts - 1
LoopContinues(attempt, maxAttempts) == attempt < maxAttempts

\* shouldRetry(error), with options.shouldRetry accepting the errors in retryable
\* (the default accepts every error).
ShouldRetryAlways(retryable, error) == TRUE
ShouldRetry(retryable, error) == error \in retryable

\* attempt === maxAttempts - 1 || !shouldRetry(error)
MustRethrow(r, error) ==
    r.attempt = r.maxAttempts - 1 \/ ~ShouldRetry(r.retryable, error)

RetryOptions ==
    [maxAttempts : (0 - 1)..MaxAttempts,
     delays : DelayOptions,
     retryable : SUBSET Errors,
     onRetry : {"absent", "returns", "throws"}]

RetryCall(o) ==
    [pc |-> "start", maxAttempts |-> o.maxAttempts, delays |-> o.delays,
     retryable |-> o.retryable, onRetry |-> o.onRetry,
     attempt |-> 0, invocations |-> 0, failures |-> 0,
     lastError |-> Undefined, thrown |-> Undefined, value |-> Undefined,
     sleepFor |-> 0, slept |-> <<>>, onRetryCalls |-> <<>>]

\* The head of the for loop at attempt a: invoke fn, or fall out of the loop
\* and throw lastError.
LoopHead(r, a) ==
    IF LoopContinues(a, r.maxAttempts)
    THEN [r EXCEPT !.pc = "awaiting", !.attempt = a, !.invocations = @ + 1]
    ELSE [r EXCEPT !.pc = "rejected", !.attempt = a, !.thrown = r.lastError]

\* The catch block for an attempt that rejected with error.
Catch(r, error) ==
    LET r1    == [r EXCEPT !.lastError = error, !.failures = @ + 1]
        delay == getRetryDelay(r.attempt, r.delays)
        calls == Append(r.onRetryCalls, <<r.attempt, error>>)
    IN  IF MustRethrow(r, error) \/ delay = Null
        THEN [r1 EXCEPT !.pc = "rejected", !.thrown = error]
        ELSE IF r.onRetry = "throws"
        THEN [r1 EXCEPT !.pc = "rejected", !.thrown = OnRetryError,
                        !.onRetryCalls = calls]
        ELSE [r1 EXCEPT !.pc = "sleeping", !.sleepFor = delay,
                        !.onRetryCalls = IF r.onRetry = "returns" THEN calls ELSE @]

RetryInit ==
    /\ LimiterCreated([shortTermRequests |-> 1, dailyRequests |-> 1, minTime |-> 0])
    /\ retry \in {RetryCall(o) : o \in RetryOptions}
    /\ token = TokenOff
    /\ OthersOff

\* retryWithBackoff is called: the loop is entered.
RetryEnter ==
    /\ retry.pc = "start"
    /\ retry' = LoopHead(retry, 0)
    /\ UNCHANGED <<limiterVars, token, otherVars>>

\* await fn() resolves: retryWithBackoff returns its value.
FnResolves ==
    /\ retry.pc = "awaiting"
    /\ retry' = [retry EXCEPT !.pc = "resolved", !.value = "success"]
    /\ UNCHANGED <<limiterVars, token, otherVars>>

\* await fn() rejects with error: the catch block runs.
FnRejects(error) ==
    /\ retry.pc = "awaiting"
    /\ retry' = Catch(retry, error)
    /\ UNCHANGED <<limiterVars, token, otherVars>>

\* await sleep(delay) resolves: attempt++ and the loop goes round.
SleepEnds ==
    /\ retry.pc = "sleeping"
    /\ retry' = LoopHead([retry EXCEPT !.slept = Append(@, retry.sleepFor),
                                       !.sleepFor = 0],
                         retry.attempt + 1)
    /\ UNCHANGED <<limiterVars, token, otherVars>>

RetryNext ==
    \/ RetryEnter
    \/ FnResolves
    \/ \E error \in Errors : FnRejects(error)
    \/ SleepEnds

RetrySpec == RetryInit /\ [][RetryNext]_vars

(***************************************************************************)
(* Claims about retryWithBackoff (checked under RetrySpec).                *)
(***************************************************************************)

\* The options a claim leaves out are at their defaults: shouldRetry accepts
\* every error and onRetry, if given, returns normally.
OtherOptionsDefault == retry.retryable = Errors /\ retry.onRetry # "throws"

\* getRetryDelay has a delay for every retry of a call with maxAttempts attempts.
DelayForEveryRetry ==
    \/ ~retry.delays.configured
    \/ Len(retry.delays.seq) = 0
    \/ Len(retry.delays.seq) >= retry.maxAttempts - 1

\* C6: with maxAttempts = N >= 1 and a delay available for every retry, an
\* operation that fails k < N times and then succeeds resolves with the success
\* value after exactly k+1 invocations, and an operation that always fails
\* rejects after exactly N invocations with the error the operation threw.
C6_RetriesUntilSuccessOrMax ==
    (retry.maxAttempts >= 1 /\ DelayForEveryRetry /\ OtherOptionsDefault) =>
        /\ retry.invocations <= retry.maxAttempts
        /\ retry.pc = "resolved" =>
              /\ retry.value = "success"
              /\ retry.failures < retry.maxAttempts
              /\ retry.invocations = retry.failures + 1
        /\ retry.pc = "rejected" =>
              /\ retry.invocations = retry.maxAttempts
              /\ retry.failures = retry.maxAttempts
              /\ retry.thrown \in Errors
              /\ retry.thrown = retry.lastError

\* maxAttempts = 3 with delays of length 2: two failures, then success at the
\* third invocation.
C6_Witness ==
    /\ retry.pc = "resolved"
    /\ retry.maxAttempts = 3
    /\ retry.delays.configured /\ Len(retry.delays.seq) = 2
    /\ OtherOptionsDefault
    /\ retry.failures = 2
    /\ retry.invocations = 3

\* What C7 says of a call with an explicit delay sequence: every delay slept
\* comes from the sequence (no exponential fallback), and a call whose
\* operation always fails ends after min(maxAttempts, delays.length + 1)
\* invocations with the operation's error.
ExhaustedSequenceRethrows ==
    /\ Len(retry.slept) <= Len(retry.delays.seq)
    /\ \A i \in 1..Len(retry.slept) : retry.slept[i] = retry.delays.seq[i]
    /\ retry.pc = "rejected" =>
          /\ retry.invocations = Min(retry.maxAttempts, Len(retry.delays.seq) + 1)
          /\ retry.invocations >= 1 => retry.thrown = retry.lastError

\* C7 as stated: for every explicit delay sequence, the empty one included.
C7_AnyExplicitSequence ==
    (retry.delays.configured /\ retry.maxAttempts >= 0 /\ OtherOptionsDefault) =>
        ExhaustedSequenceRethrows

\* C7: when a non-empty explicit delay sequence is configured and attempt i
\* fails with i >= delays.length, the error is rethrown immediately with no
\* fallback to exponential backoff; a permanently failing operation is invoked
\* exactly min(maxAttempts, delays.length + 1) times.
C7_NonEmptySequence ==
    (/\ retry.delays.configured
     /\ Len(retry.delays.seq) >= 1
     /\ retry.maxAttempts >= 0
     /\ OtherOptionsDefault) =>
        ExhaustedSequenceRethrows

\* One delay configured, maxAttempts = 3: attempt 1 fails and is rethrown
\* although it is not the last attempt.
C7_Witness ==
    /\ retry.pc = "rejected"
    /\ retry.delays.configured /\ Len(retry.delays.seq) = 1
    /\ retry.maxAttempts = 3
    /\ OtherOptionsDefault
    /\ retry.attempt = 1
    /\ retry.invocations = 2

\* C8: with shouldRetry always false the operation is invoked exactly once for
\* every maxAttempts >= 1, its error is rethrown, and there is no delay and no
\* onRetry call.
C8_ShouldRetryFalseOnce ==
    (retry.retryable = {} /\ retry.maxAttempts >= 1) =>
        /\ retry.invocations <= 1
        /\ retry.pc # "sleeping"
        /\ retry.slept = <<>>
        /\ retry.onRetryCalls = <<>>
        /\ retry.pc \in {"resolved", "rejected"} => retry.invocations = 1
        /\ retry.pc = "rejected" =>
              retry.thrown \in Errors /\ retry.thrown = retry.lastError

\* maxAttempts = 3, an onRetry hook and delays, shouldRetry always false: the
\* first failure is rethrown.
C8_Witness ==
    /\ retry.pc = "rejected"
    /\ retry.retryable = {}
    /\ retry.maxAttempts = 3
    /\ retry.onRetry = "returns"
    /\ retry.delays.configured /\ Len(retry.delays.seq) = 2
    /\ retry.invocations = 1
    /\ retry.thrown \in Errors

(***************************************************************************)
(* The token refresh guard: one call of StravaApi.ensureValidToken.        *)
(* Instants are milliseconds; expires_at of a refresh response is seconds. *)
(***************************************************************************)

MaxSkew == 1            \* expiresAt ranges over boundary - MaxSkew .. boundary + MaxSkew

\* const TOKEN_REFRESH_BUFFER = 5 * 60 * 1000
TOKEN_REFRESH_BUFFER == 5 * 60 * 1000

ThreeMinutes == 3 * 60 * 1000
TenMinutes == 10 * 60 * 1000

\* The values Date.now() may return when ensureValidToken is called.
Nows == {TenMinutes, TenMinutes + 1}

\* The expiresAt passed in: around the refresh boundary of the earliest call,
\* and the instants of the repository's tests (10 minutes ago, in 3 minutes,
\* in 10 minutes).
ExpiresAts ==
    {TenMinutes + TOKEN_REFRESH_BUFFER + d : d \in (0 - MaxSkew)..MaxSkew}
        \cup {TenMinutes - TenMinutes, TenMinutes + ThreeMinutes, TenMinutes + TenMinutes}

AccessTokens == {"access-token", "new-access-token"}
RefreshTokens == {"refresh-token", "new-refresh-token"}

\* The bodies a successful refresh response may carry.
RefreshResponses ==
    [access_token : AccessTokens,
     refresh_token : RefreshTokens,
     expires_at : {600 + 3600, 600 + 21600}]

\* expiresAt <= bufferTime, with bufferTime = now + TOKEN_REFRESH_BUFFER
NeedsRefreshStrict(expiresAt, now) == expiresAt < now + TOKEN_REFRESH_BUFFER
NeedsRefresh(expiresAt, now) == expiresAt <= now + TOKEN_REFRESH_BUFFER

\* The TokenData returned after a refresh.
RefreshedKeepingRefreshToken(tokenData, old) ==
    [accessToken |-> tokenData.access_token,
     refreshToken |-> old.refreshToken,
     expiresAt |-> tokenData.expires_at * 1000,
     wasRefreshed |-> TRUE]
Refreshed(tokenData, old) ==
    [accessToken |-> tokenData.access_token,
     refreshToken |-> tokenData.refresh_token,
     expiresAt |-> tokenData.expires_at * 1000,
     wasRefreshed |-> TRUE]

\* The TokenData returned when no refresh is needed.
NotRefreshed(old) ==
    [accessToken |-> old.accessToken,
     refreshToken |-> old.refreshToken,
     expiresAt |-> old.expiresAt,
     wasRefreshed |-> FALSE]

NoTokenData ==
    [accessToken |-> Undefined, refreshToken |-> Undefined, expiresAt |-> 0,
     wasRefreshed |-> FALSE]
NoResponse == [access_token |-> Undefined, refresh_token |-> Undefined, expires_at |-> 0]

TokenCall(a, r, e) ==
    [pc |-> "called", in |-> [accessToken |-> a, refreshToken |-> r, expiresAt |-> e],
     now |-> 0, fetches |-> 0, sent |-> Undefined, response |-> NoResponse,
     out |-> NoTokenData, failure |-> Undefined, error |-> Undefined]

TokenInit ==
    /\ LimiterCreated([shortTermRequests |-> 1, dailyRequests |-> 1, minTime |-> 0])
    /\ retry = RetryOff
    /\ token \in {TokenCall(a, r, e) : a \in AccessTokens, r \in RefreshTokens,
                                       e \in ExpiresAts}
    /\ OthersOff

\* ensureValidToken runs up to its first await: it reads the clock and either
\* returns the input or posts the refresh request (refreshAccessToken).
EnsureValidToken(now) ==
    /\ token.pc = "called"
    /\ token' =
          IF NeedsRefresh(token.in.expiresAt, now)
          THEN [token EXCEPT !.pc = "refreshing", !.now = now, !.fetches = @ + 1,
                             !.sent = token.in.refreshToken]
          ELSE [token EXCEPT !.pc = "returned", !.now = now,
                             !.out = NotRefreshed(token.in)]
    /\ UNCHANGED <<limiterVars, retry, otherVars>>

\* The token endpoint answers with a token: ensureValidToken returns it.
RefreshSucceeds(tokenData) ==
    /\ token.pc = "refreshing"
    /\ token' = [token EXCEPT !.pc = "returned", !.response = tokenData,
                              !.out = Refreshed(tokenData, token.in)]
    /\ UNCHANGED <<limiterVars, retry, otherVars>>

\* A guard that answers a failed refresh with the token it was given.
RefreshFallsBack(t, error) ==
    [t EXCEPT !.pc = "returned", !.out = NotRefreshed(t.in)]

\* refreshAccessToken rethrows the error of the request and ensureValidToken,
\* which awaits it without a try, rejects with it.
RefreshRejected(t, error) ==
    [t EXCEPT !.pc = "rejected", !.error = error]

\* The request fails or the endpoint answers with an error status:
\* refreshAccessToken throws and ensureValidToken rejects.
RefreshFails(error) ==
    /\ token.pc = "refreshing"
    /\ token' = RefreshRejected([token EXCEPT !.failure = error], error)
    /\ UNCHANGED <<limiterVars, retry, otherVars>>

TokenNext ==
    \/ \E now \in Nows : EnsureValidToken(now)
    \/ \E tokenData \in RefreshResponses : RefreshSucceeds(tokenData)
    \/ \E error \in {"Token refresh failed", "fetch failed"} : RefreshFails(error)

TokenSpec == TokenInit /\ [][TokenNext]_vars

(***************************************************************************)
(* Claims about ensureValidToken (checked under TokenSpec).                *)
(***************************************************************************)

TokenCallMade == token.pc \in {"refreshing", "returned", "rejected"}

\* C9: ensureValidToken performs a refresh call if and only if
\* expiresAt <= now + 5 minutes, the boundary included; otherwise it makes no
\* network call and returns the input triple with wasRefreshed = false.
C9_RefreshIffWithinBuffer ==
    TokenCallMade =>
        /\ token.fetches \in {0, 1}
        /\ token.fetches = 1 <=> token.in.expiresAt <= token.now + 300000
        /\ token.in.expiresAt > token.now + 300000 =>
              /\ token.pc = "returned"
              /\ token.out.accessToken = token.in.accessToken
              /\ token.out.refreshToken = token.in.refreshToken
              /\ token.out.expiresAt = token.in.expiresAt
              /\ token.out.wasRefreshed = FALSE

\* A call made exactly at the boundary, expiresAt = now + 5 minutes, refreshes.
C9_Witness ==
    /\ token.pc = "returned"
    /\ token.in.expiresAt = token.now + 300000
    /\ token.fetches = 1
    /\ token.out.wasRefreshed

\* C10: when ensureValidToken refreshes, accessToken, refreshToken and
\* expiresAt of the result all come from the refresh response (expires_at
\* seconds as milliseconds) and wasRefreshed = true.
C10_RefreshReplacesTriple ==
    (token.pc = "returned" /\ token.fetches = 1) =>
        /\ token.out.accessToken = token.response.access_token
        /\ token.out.refreshToken = token.response.refresh_token
        /\ token.out.expiresAt = token.response.expires_at * 1000
        /\ token.out.wasRefreshed = TRUE

\* A refresh whose response differs from the old triple in every field.
C10_Witness ==
    /\ token.pc = "returned"
    /\ token.fetches = 1
    /\ token.response.access_token # token.in.accessToken
    /\ token.response.refresh_token # token.in.refreshToken
    /\ token.response.expires_at * 1000 # token.in.expiresAt
    /\ token.out.accessToken = token.response.access_token
    /\ token.out.refreshToken = token.response.refresh_token


(***************************************************************************)
(* Webhook dispatcher: StravaWebhooks keeps four handler lists; processEvent*)
(* picks the list of the event's (object_type, aspect_type) pair and calls  *)
(* every handler of it through Promise.all(handlers.map(...)).              *)
(***************************************************************************)
MaxHandlers == 2

HandlerKeys == {"activityCreate", "activityUpdate", "activityDelete",
                "deauthorize"}

\* What a registered handler does when it is called.  Its type is
\* (event, athleteId) => void | Promise<void>: it returns at once, throws at
\* once, or returns a promise that settles later (fulfilled or rejected).
HandlerBehaviours == {"returns", "throws", "async"}

ObjectTypes == {"activity", "athlete"}
AspectTypes == {"create", "update", "delete", "deauthorize"}
WebhookEvents ==
    [object_type : ObjectTypes, aspect_type : AspectTypes,
     object_id : {12345}, owner_id : {67890}]
NoEvent == [object_type |-> "none", aspect_type |-> "none",
            object_id |-> 0, owner_id |-> 0]

\* The handlers field of a new StravaWebhooks: four empty lists.
NoHandlers == [k \in HandlerKeys |-> <<>>]

Registered(handlers) ==
    Len(handlers["activityCreate"]) + Len(handlers["activityUpdate"])
        + Len(handlers["activityDelete"]) + Len(handlers["deauthorize"])

\* A routing that forgets the aspect_type test of the athlete branch.
processEventAnyAthleteAspect(event) ==
    IF event.object_type = "activity"
    THEN IF event.aspect_type = "create" THEN "activityCreate"
         ELSE IF event.aspect_type = "update" THEN "activityUpdate"
         ELSE IF event.aspect_type = "delete" THEN "activityDelete"
         ELSE "none"
    ELSE IF event.object_type = "athlete" THEN "deauthorize"
    ELSE "none"

\* The branch processEvent takes: the key of the handler list it passes to
\* invokeHandlers, or "none" when no branch matches.
processEvent(event) ==
    IF event.object_type = "activity"
    THEN IF event.aspect_type = "create" THEN "activityCreate"
         ELSE IF event.aspect_type = "update" THEN "activityUpdate"
         ELSE IF event.aspect_type = "delete" THEN "activityDelete"
         ELSE "none"
    ELSE IF event.object_type = "athlete" /\ event.aspect_type = "deauthorize"
    THEN "deauthorize"
    ELSE "none"

\* handlers.map((handler) => handler(event, athleteId)): the handlers are
\* called in list order; a handler that throws ends the map, so the handlers
\* after it are not called.
RECURSIVE HandlersMap(_, _, _, _, _)
HandlersMap(key, list, event, athleteId, made) ==
    IF Len(made) = Len(list) THEN made
    ELSE IF made # <<>> /\ made[Len(made)].state = "threw" THEN made
    ELSE LET i == Len(made) + 1
             call == [key |-> key, index |-> i, behaviour |-> list[i],
                      event |-> event, athleteId |-> athleteId,
                      state |-> IF list[i] = "returns" THEN "returned"
                                ELSE IF list[i] = "throws" THEN "threw"
                                ELSE "pending"]
         IN  HandlersMap(key, list, event, athleteId, Append(made, call))

Failed(call) == call.state \in {"threw", "rejected"}
Pending(call) == call.state = "pending"

\* The first failed call of a sequence of calls, 0 when there is none.
FirstFailed(calls) ==
    IF \E i \in 1..Len(calls) : Failed(calls[i])
    THEN CHOOSE i \in 1..Len(calls) :
             /\ Failed(calls[i])
             /\ \A j \in 1..(i - 1) : ~Failed(calls[j])
    ELSE 0

\* await Promise.all(...) in invokeHandlers: a throw of the map or a rejected
\* promise rejects the call at once; it resolves when every value is
\* fulfilled; until then it is awaiting.
PromiseAll(calls) ==
    IF \E i \in 1..Len(calls) : Failed(calls[i]) THEN "rejected"
    ELSE IF \E i \in 1..Len(calls) : Pending(calls[i]) THEN "awaiting"
    ELSE "resolved"

\* invokeHandlers(handlers, event, athleteId) up to its await.
invokeHandlers(w, key, event, athleteId) ==
    LET calls == HandlersMap(key, w.handlers[key], event, athleteId, <<>>)
    IN  [w EXCEPT !.calls = calls,
                  !.trace = w.trace \o [i \in 1..Len(calls) |-> "handler"],
                  !.pc = PromiseAll(calls),
                  !.error = FirstFailed(calls)]

\* processEvent(event) up to its first await.  When no branch matches it
\* resolves with no handler called.
Process(w, event) ==
    LET key == processEvent(event)
        started == [w EXCEPT !.event = event]
    IN  IF key = "none"
        THEN [started EXCEPT !.pc = "resolved"]
        ELSE invokeHandlers(started, key, event, event.owner_id)

\* res.status(200).json({ success: true })
Respond(w) ==
    [w EXCEPT !.responses = Append(@, 200), !.trace = Append(@, "response")]

\* How the Express events handler ends: its try/catch logs a rejection of
\* processEvent and returns.
RequestEnds(pc) ==
    IF pc = "awaiting" THEN "pending" ELSE "returned"

\* An events handler that processes the event before it responds.
EventsHandlerRespondLast(w, event) ==
    LET processed == Respond(Process(w, event))
    IN  [processed EXCEPT !.via = "express",
                          !.request = RequestEnds(processed.pc)]

\* The events handler of createExpressHandlers: respond 200, then await
\* processEvent inside try/catch.
EventsHandler(w, event) ==
    LET processed == Process(Respond(w), event)
    IN  [processed EXCEPT !.via = "express",
                          !.request = RequestEnds(processed.pc)]

\* A new StravaWebhooks, no event received yet.
WebhookCreated ==
    [pc |-> "registering", handlers |-> NoHandlers, event |-> NoEvent,
     calls |-> <<>>, error |-> 0, via |-> "none", responses |-> <<>>,
     trace |-> <<>>, request |-> "none"]

WebhookInit ==
    /\ LimiterCreated([shortTermRequests |-> 1, dailyRequests |-> 1, minTime |-> 0])
    /\ retry = RetryOff
    /\ token = TokenOff
    /\ webhook = WebhookCreated
    /\ verification = VerificationOff
    /\ classified = ClassifiedOff
    /\ LaterOff

webhookOthers == <<limiterVars, retry, token, verification, classified, laterVars>>

\* onActivityCreate / onActivityUpdate / onActivityDelete /
\* onAthleteDeauthorize: push the handler on its list.
On(key, behaviour) ==
    /\ webhook.pc = "registering"
    /\ Registered(webhook.handlers) < MaxHandlers
    /\ webhook' = [webhook EXCEPT !.handlers[key] = Append(@, behaviour)]
    /\ UNCHANGED webhookOthers

\* The application calls client.webhooks.processEvent(event) itself.
ProcessEventCalled(event) ==
    /\ webhook.pc = "registering"
    /\ webhook' = [Process(webhook, event) EXCEPT !.via = "direct"]
    /\ UNCHANGED webhookOthers

\* Strava posts the event to the Express events route.
EventsRequest(event) ==
    /\ webhook.pc = "registering"
    /\ webhook' = EventsHandler(webhook, event)
    /\ UNCHANGED webhookOthers

\* The promise returned by the i-th called handler settles.  Promise.all
\* rejects on the first rejection and resolves when all are fulfilled; once
\* it has rejected, later settlements change nothing for the caller.
HandlerSettles(i, outcome) ==
    /\ webhook.pc \in {"awaiting", "rejected"}
    /\ i \in 1..Len(webhook.calls)
    /\ Pending(webhook.calls[i])
    /\ LET calls == [webhook.calls EXCEPT ![i].state = outcome]
           pc == IF webhook.pc = "rejected" THEN "rejected" ELSE PromiseAll(calls)
       IN  webhook' =
               [webhook EXCEPT
                   !.calls = calls,
                   !.pc = pc,
                   !.error = IF webhook.pc = "awaiting" /\ outcome = "rejected"
                             THEN i ELSE @,
                   !.request = IF webhook.via = "express"
                               THEN RequestEnds(pc) ELSE @]
    /\ UNCHANGED webhookOthers

WebhookNext ==
    \/ \E key \in HandlerKeys : \E behaviour \in HandlerBehaviours :
           On(key, behaviour)
    \/ \E event \in WebhookEvents : ProcessEventCalled(event)
    \/ \E event \in WebhookEvents : EventsRequest(event)
    \/ \E i \in 1..MaxHandlers : \E outcome \in {"fulfilled", "rejected"} :
           HandlerSettles(i, outcome)

WebhookSpec == WebhookInit /\ [][WebhookNext]_vars

\* The event of the call has one of the four routed pairs.
Routed == webhook.pc \in {"awaiting", "resolved", "rejected"}
              /\ processEvent(webhook.event) # "none"

\* The calls made are exactly the first n handlers of the event's list, each
\* called once, in list order, with the event and event.owner_id.
CallsArePrefix(n) ==
    LET key == processEvent(webhook.event)
    IN  /\ Len(webhook.calls) = n
        /\ n <= Len(webhook.handlers[key])
        /\ \A i \in 1..n :
               /\ webhook.calls[i].key = key
               /\ webhook.calls[i].index = i
               /\ webhook.calls[i].behaviour = webhook.handlers[key][i]
               /\ webhook.calls[i].event = webhook.event
               /\ webhook.calls[i].athleteId = webhook.event.owner_id

\* C11: for an event of one of the four routed pairs, processEvent calls
\* every handler registered for that pair exactly once, with the event and
\* event.owner_id, and no handler registered for another pair.
C11_EveryHandlerOnce ==
    Routed => CallsArePrefix(Len(webhook.handlers[processEvent(webhook.event)]))

\* Every handler of the list is called once as long as none of them throws
\* inside the map.
EveryHandlerOnceUnlessThrown ==
    Routed =>
        \/ CallsArePrefix(Len(webhook.handlers[processEvent(webhook.event)]))
        \/ /\ webhook.calls # <<>>
           /\ webhook.calls[Len(webhook.calls)].state = "threw"
           /\ CallsArePrefix(Len(webhook.calls))

\* C12: when a handler throws or rejects, every other handler of the list is
\* still called and runs on, and processEvent rejects with that failure.
C12_FailureKeepsSiblings ==
    (/\ Routed
     /\ \E i \in 1..Len(webhook.calls) : Failed(webhook.calls[i])) =>
        /\ Len(webhook.calls) = Len(webhook.handlers[processEvent(webhook.event)])
        /\ webhook.pc = "rejected"
        /\ webhook.error > 0
        /\ Failed(webhook.calls[webhook.error])

\* With handlers that only reject through their promise, a failure leaves
\* every sibling called and processEvent rejected with the first failure.
RejectionKeepsSiblings ==
    (/\ Routed
     /\ \E i \in 1..Len(webhook.calls) : webhook.calls[i].state = "rejected"
     /\ \A i \in 1..Len(webhook.calls) : webhook.calls[i].state # "threw") =>
        /\ Len(webhook.calls) = Len(webhook.handlers[processEvent(webhook.event)])
        /\ webhook.pc = "rejected"
        /\ webhook.error > 0
        /\ Failed(webhook.calls[webhook.error])

\* C13: processEvent completes only after every handler promise of the
\* matched list has settled, also when one rejects while others are pending.
C13_CompletesAfterAllSettle ==
    webhook.pc \in {"resolved", "rejected"} =>
        \A i \in 1..Len(webhook.calls) : ~Pending(webhook.calls[i])

\* A resolved processEvent has no pending handler promise.
ResolvedAfterAllSettle ==
    webhook.pc = "resolved" =>
        \A i \in 1..Len(webhook.calls) : ~Pending(webhook.calls[i])

\* C14: handlers are called only for the four routed pairs, each from its
\* own list; for every other pair no handler is called and processEvent
\* resolves without error.
C14_OnlyRoutedPairs ==
    webhook.pc \in {"awaiting", "resolved", "rejected"} =>
        LET e == webhook.event
            key == IF e.object_type = "activity" /\ e.aspect_type = "create"
                       THEN "activityCreate"
                   ELSE IF e.object_type = "activity" /\ e.aspect_type = "update"
                       THEN "activityUpdate"
                   ELSE IF e.object_type = "activity" /\ e.aspect_type = "delete"
                       THEN "activityDelete"
                   ELSE IF e.object_type = "athlete" /\ e.aspect_type = "deauthorize"
                       THEN "deauthorize"
                   ELSE "none"
        IN  IF key = "none"
            THEN webhook.calls = <<>> /\ webhook.pc = "resolved" /\ webhook.error = 0
            ELSE \A i \in 1..Len(webhook.calls) :
                     /\ webhook.calls[i].key = key
                     /\ webhook.calls[i].index <= Len(webhook.handlers[key])
                     /\ webhook.calls[i].behaviour
                            = webhook.handlers[key][webhook.calls[i].index]

\* An athlete update event arrived while a deauthorize handler that would
\* throw is registered: nothing is called and the call resolved.
C14_Witness ==
    /\ webhook.pc = "resolved"
    /\ webhook.event.object_type = "athlete"
    /\ webhook.event.aspect_type = "update"
    /\ webhook.handlers["deauthorize"] = <<"throws">>
    /\ webhook.handlers["activityUpdate"] = <<"async">>
    /\ webhook.calls = <<>>

\* C15: the Express events handler sends the 200 response before any
\* handler is called; the response does not depend on the handlers: a
\* rejection of processEvent is caught, does not leave the request handler
\* and neither changes nor repeats the response.
C15_AckBeforeHandlers ==
    webhook.via = "express" =>
        /\ webhook.responses = <<200>>
        /\ webhook.trace[1] = "response"
        /\ \A i \in 2..Len(webhook.trace) : webhook.trace[i] = "handler"
        /\ webhook.request # "threw"
        /\ webhook.pc \in {"resolved", "rejected"} => webhook.request = "returned"

\* A request whose handlers were called and failed: one 200 response was
\* sent first and the request handler returned.
C15_Witness ==
    /\ webhook.via = "express"
    /\ webhook.pc = "rejected"
    /\ Len(webhook.calls) > 1
    /\ webhook.calls[1].state = "rejected"
    /\ webhook.responses = <<200>>
    /\ webhook.request = "returned"

(***************************************************************************)
(* validateWebhookVerification(params, expectedToken): the check of the     *)
(* subscription handshake.  A parameter is a string or is left out; the     *)
(* code tests it with !params.x, which also takes the empty string as       *)
(* missing.                                                                 *)
(***************************************************************************)
Modes == {Undefined, "", "subscribe", "invalid-mode"}
VerifyTokens == {Undefined, "", "my-verify-token", "wrong-token"}
Challenges == {Undefined, "", "test-challenge"}
ExpectedTokens == {"", "my-verify-token", "wrong-token"}
VerificationParams == [mode : Modes, token : VerifyTokens, challenge : Challenges]

\* JavaScript truthiness of an optional string: !x is true for undefined
\* and for "".
Truthy(x) == x # Undefined /\ x # ""

MissingParameters == <<"Missing required verification parameters">>
InvalidMode(mode) == <<"Invalid verification mode: ", mode>>
InvalidToken == <<"Invalid verification token">>

Invalid(reason) == [valid |-> FALSE, challenge |-> Undefined, reason |-> reason]
Valid(challenge) == [valid |-> TRUE, challenge |-> challenge, reason |-> <<>>]

\* A validation that compares the token before it looks at the mode.
validateWebhookVerificationTokenFirst(params, expectedToken) ==
    IF ~Truthy(params.mode) \/ ~Truthy(params.token) \/ ~Truthy(params.challenge)
    THEN Invalid(MissingParameters)
    ELSE IF params.token # expectedToken THEN Invalid(InvalidToken)
    ELSE IF params.mode # "subscribe" THEN Invalid(InvalidMode(params.mode))
    ELSE Valid(params.challenge)

validateWebhookVerification(params, expectedToken) ==
    IF ~Truthy(params.mode) \/ ~Truthy(params.token) \/ ~Truthy(params.challenge)
    THEN Invalid(MissingParameters)
    ELSE IF params.mode # "subscribe" THEN Invalid(InvalidMode(params.mode))
    ELSE IF params.token # expectedToken THEN Invalid(InvalidToken)
    ELSE Valid(params.challenge)

NoVerification == [valid |-> FALSE, challenge |-> Undefined, reason |-> <<>>]

VerificationCall(params, expectedToken) ==
    [pc |-> "called", params |-> params, expectedToken |-> expectedToken,
     result |-> NoVerification]

VerificationInit ==
    /\ LimiterCreated([shortTermRequests |-> 1, dailyRequests |-> 1, minTime |-> 0])
    /\ retry = RetryOff
    /\ token = TokenOff
    /\ webhook = WebhookOff
    /\ verification \in {VerificationCall(p, t) : p \in VerificationParams,
                                                    t \in ExpectedTokens}
    /\ classified = ClassifiedOff
    /\ LaterOff

\* The call returns its result.
Validate ==
    /\ verification.pc = "called"
    /\ verification' =
           [verification EXCEPT
               !.pc = "returned",
               !.result = validateWebhookVerification(verification.params,
                                                      verification.expectedToken)]
    /\ UNCHANGED <<limiterVars, retry, token, webhook, classified, laterVars>>

VerificationNext == Validate

VerificationSpec == VerificationInit /\ [][VerificationNext]_vars

\* C16: the result is valid, echoing the challenge, exactly when mode, token
\* and challenge are all present (given and not empty), mode is "subscribe"
\* and token equals expectedToken; otherwise it is invalid, carries no
\* challenge, and its reason is that of the first failing check in the order
\* missing parameter, invalid mode, invalid token.
C16_ValidIffAllChecksPass ==
    verification.pc = "returned" =>
        LET p == verification.params
            r == verification.result
            present == /\ p.mode \notin {Undefined, ""}
                       /\ p.token \notin {Undefined, ""}
                       /\ p.challenge \notin {Undefined, ""}
            modeOk == p.mode = "subscribe"
            tokenOk == p.token = verification.expectedToken
        IN  /\ r.valid = (present /\ modeOk /\ tokenOk)
            /\ r.valid => r.challenge = p.challenge /\ r.reason = <<>>
            /\ ~r.valid =>
                   /\ r.challenge = Undefined
                   /\ ~present => r.reason = <<"Missing required verification parameters">>
                   /\ (present /\ ~modeOk) =>
                          r.reason = <<"Invalid verification mode: ", p.mode>>
                   /\ (present /\ modeOk) =>
                          r.reason = <<"Invalid verification token">>

\* A call with all parameters present, a wrong mode and a wrong token was
\* refused for its mode.
C16_Witness ==
    /\ verification.pc = "returned"
    /\ verification.params = [mode |-> "invalid-mode", token |-> "wrong-token",
                              challenge |-> "test-challenge"]
    /\ verification.expectedToken = "my-verify-token"
    /\ verification.result.reason = <<"Invalid verification mode: ", "invalid-mode">>

(***************************************************************************)
(* Error classifier: classifyError(error) reads a message and a status code *)
(* from the error, maps them to an error code (extractErrorCode) and decides*)
(* whether the failure is retryable (isErrorRetryable).                     *)
(*                                                                          *)
(* A message is modelled by the set of phrases it contains; the phrases are *)
(* the keywords the classifier looks for, two of them also capitalised, and *)
(* one phrase that is no keyword.                                           *)
(***************************************************************************)
MaxPhrases == 2

Keywords == {"unauthorized", "forbidden", "not found", "rate limit",
             "server error", "unavailable", "timeout", "token", "expired",
             "invalid"}
Phrases == Keywords \cup {"Unauthorized", "Not Found", "activity"}
UnknownErrorOccurred == {"Unknown error occurred"}

Messages == {m \in SUBSET Phrases : Cardinality(m) <= MaxPhrases}

\* message.toLowerCase(), phrase by phrase.
toLowerCase(message) ==
    {IF p = "Unauthorized" THEN "unauthorized"
     ELSE IF p = "Not Found" THEN "not found"
     ELSE IF p = "Unknown error occurred" THEN "unknown error occurred"
     ELSE p : p \in message}

\* messageLower.includes(keyword)
includes(messageLower, keyword) == keyword \in messageLower

\* A status code that is not there (undefined).
NoStatus == 0 - 1
StatusCodes == {0, 400, 401, 403, 404, 429, 500, 502, 503, 504, 599, 600}

\* The errors classifyError is called with: an Error instance (StravaApiError
\* included) that may carry statusCode and status, a plain object with a
\* message and the same two properties, or a string.
ErrorInputs ==
    [shape : {"Error", "object"}, message : Messages,
     statusCode : StatusCodes \cup {NoStatus},
     status : {NoStatus, 404, 502}]
        \cup [shape : {"string"}, message : Messages,
              statusCode : {NoStatus}, status : {NoStatus}]

getErrorMessage(error) ==
    IF error.shape = "Error" THEN error.message
    ELSE IF error.shape = "string" THEN error.message
    ELSE UnknownErrorOccurred

getStatusCode(error) ==
    IF error.shape # "string" /\ error.statusCode # NoStatus THEN error.statusCode
    ELSE IF error.shape # "string" /\ error.status # NoStatus THEN error.status
    ELSE NoStatus

extractErrorCode(message, statusCode) ==
    LET messageLower == toLowerCase(message)
    IN  IF statusCode = 401 \/ includes(messageLower, "unauthorized")
            THEN "UNAUTHORIZED"
        ELSE IF statusCode = 403 \/ includes(messageLower, "forbidden")
            THEN "FORBIDDEN"
        ELSE IF statusCode = 404 \/ includes(messageLower, "not found")
            THEN "NOT_FOUND"
        ELSE IF statusCode = 429 \/ includes(messageLower, "rate limit")
            THEN "RATE_LIMITED"
        ELSE IF statusCode = 500 \/ includes(messageLower, "server error")
            THEN "SERVER_ERROR"
        ELSE IF statusCode = 503 \/ includes(messageLower, "unavailable")
            THEN "SERVICE_UNAVAILABLE"
        ELSE IF statusCode = 504 \/ includes(messageLower, "timeout")
            THEN "TIMEOUT"
        ELSE IF includes(messageLower, "token") /\ includes(messageLower, "expired")
            THEN "TOKEN_EXPIRED"
        ELSE IF includes(messageLower, "token") /\ includes(messageLower, "invalid")
            THEN "TOKEN_INVALID"
        ELSE "UNKNOWN_ERROR"

retryableCodes == {"RATE_LIMITED", "TIMEOUT", "SERVICE_UNAVAILABLE",
                   "SERVER_ERROR"}

\* A decision that looks at the error code only.
isErrorRetryableByCodeOnly(errorCode, statusCode) ==
    errorCode \in retryableCodes

isErrorRetryable(errorCode, statusCode) ==
    IF errorCode \in retryableCodes THEN TRUE
    ELSE IF statusCode # NoStatus /\ statusCode # 0
            /\ statusCode >= 500 /\ statusCode < 600 THEN TRUE
    ELSE FALSE

classifyError(error) ==
    LET errorMessage == getErrorMessage(error)
        statusCode == getStatusCode(error)
        errorCode == extractErrorCode(errorMessage, statusCode)
    IN  [message |-> errorMessage, statusCode |-> statusCode,
         errorCode |-> errorCode,
         isRetryable |-> isErrorRetryable(errorCode, statusCode)]

NoClassification ==
    [message |-> {}, statusCode |-> NoStatus, errorCode |-> "none",
     isRetryable |-> FALSE]

ClassifyCall(error) ==
    [pc |-> "called", error |-> error, result |-> NoClassification]

ClassifyInit ==
    /\ LimiterCreated([shortTermRequests |-> 1, dailyRequests |-> 1, minTime |-> 0])
    /\ retry = RetryOff
    /\ token = TokenOff
    /\ webhook = WebhookOff
    /\ verification = VerificationOff
    /\ classified \in {ClassifyCall(e) : e \in ErrorInputs}
    /\ LaterOff

\* The call returns the StravaError it built.
Classify ==
    /\ classified.pc = "called"
    /\ classified' = [classified EXCEPT !.pc = "returned",
                                        !.result = classifyError(classified.error)]
    /\ UNCHANGED <<limiterVars, retry, token, webhook, verification, laterVars>>

ClassifyNext == Classify

ClassifySpec == ClassifyInit /\ [][ClassifyNext]_vars

\* The kind a status code stands for by itself, "none" for the others.
StatusKind(statusCode) ==
    IF statusCode = 401 THEN "UNAUTHORIZED"
    ELSE IF statusCode = 403 THEN "FORBIDDEN"
    ELSE IF statusCode = 404 THEN "NOT_FOUND"
    ELSE IF statusCode = 429 THEN "RATE_LIMITED"
    ELSE IF statusCode = 500 THEN "SERVER_ERROR"
    ELSE IF statusCode = 503 THEN "SERVICE_UNAVAILABLE"
    ELSE IF statusCode = 504 THEN "TIMEOUT"
    ELSE "none"

\* The kinds whose keyword the message of the result contains.
KeywordKinds(message) ==
    LET lower == toLowerCase(message)
    IN  {k \in {"UNAUTHORIZED", "FORBIDDEN", "NOT_FOUND", "RATE_LIMITED",
                "SERVER_ERROR", "SERVICE_UNAVAILABLE", "TIMEOUT",
                "TOKEN_EXPIRED", "TOKEN_INVALID"} :
            \/ k = "UNAUTHORIZED" /\ "unauthorized" \in lower
            \/ k = "FORBIDDEN" /\ "forbidden" \in lower
            \/ k = "NOT_FOUND" /\ "not found" \in lower
            \/ k = "RATE_LIMITED" /\ "rate limit" \in lower
            \/ k = "SERVER_ERROR" /\ "server error" \in lower
            \/ k = "SERVICE_UNAVAILABLE" /\ "unavailable" \in lower
            \/ k = "TIMEOUT" /\ "timeout" \in lower
            \/ k = "TOKEN_EXPIRED" /\ {"token", "expired"} \subseteq lower
            \/ k = "TOKEN_INVALID" /\ {"token", "invalid"} \subseteq lower}

Classified == classified.pc = "returned"

\* C17: when the status code maps to a kind and the message contains a
\* keyword of a different kind, the result has the kind of the status code.
C17_StatusCodeTakesPrecedence ==
    (/\ Classified
     /\ StatusKind(classified.result.statusCode) # "none"
     /\ KeywordKinds(classified.result.message)
            \ {StatusKind(classified.result.statusCode)} # {}) =>
        classified.result.errorCode = StatusKind(classified.result.statusCode)

\* Without a keyword in the message the kind is that of the status code.
StatusCodeDecidesAlone ==
    (/\ Classified
     /\ StatusKind(classified.result.statusCode) # "none"
     /\ KeywordKinds(classified.result.message) = {}) =>
        classified.result.errorCode = StatusKind(classified.result.statusCode)

\* C18: every RATE_LIMITED result is retryable and every NOT_FOUND result is
\* not, whatever the status code and the message.
C18_RateLimitedYesNotFoundNo ==
    Classified =>
        /\ classified.result.errorCode = "RATE_LIMITED" => classified.result.isRetryable
        /\ classified.result.errorCode = "NOT_FOUND" => ~classified.result.isRetryable

\* The RATE_LIMITED half.
RateLimitedIsRetryable ==
    (Classified /\ classified.result.errorCode = "RATE_LIMITED") =>
        classified.result.isRetryable

\* C19 as stated: isRetryable is true exactly when the kind is RATE_LIMITED,
\* TIMEOUT, SERVICE_UNAVAILABLE or SERVER_ERROR, or the status code is in
\* [500, 599).
C19_RetryableIffKindOrBelow599 ==
    Classified =>
        classified.result.isRetryable =
            (\/ classified.result.errorCode \in
                    {"RATE_LIMITED", "TIMEOUT", "SERVICE_UNAVAILABLE", "SERVER_ERROR"}
             \/ /\ classified.result.statusCode >= 500
                /\ classified.result.statusCode < 599)

\* C19 (amended): isRetryable is true exactly when the kind is RATE_LIMITED,
\* TIMEOUT, SERVICE_UNAVAILABLE or SERVER_ERROR, or the status code is in
\* [500, 600), that is 500..599.
C19_RetryableIffKindOr5xx ==
    Classified =>
        classified.result.isRetryable =
            (\/ classified.result.errorCode \in
                    {"RATE_LIMITED", "TIMEOUT", "SERVICE_UNAVAILABLE", "SERVER_ERROR"}
             \/ /\ classified.result.statusCode >= 500
                /\ classified.result.statusCode <= 599)

\* A status 599 with nothing telling in the message was classified as
\* retryable.
C19_Witness ==
    /\ Classified
    /\ classified.result.statusCode = 599
    /\ classified.result.errorCode = "UNKNOWN_ERROR"
    /\ classified.result.isRetryable

\* C20: a TOKEN_EXPIRED or TOKEN_INVALID result is never retryable, whatever
\* the status code and the message that yield it.
C20_TokenErrorsNotRetryable ==
    (Classified /\ classified.result.errorCode \in {"TOKEN_EXPIRED", "TOKEN_INVALID"})
        => ~classified.result.isRetryable

\* Token kinds are not retryable when the status code is not a 5xx.
TokenErrorsNotRetryableBelow500 ==
    (/\ Classified
     /\ classified.result.errorCode \in {"TOKEN_EXPIRED", "TOKEN_INVALID"}
     /\ classified.result.statusCode < 500) => ~classified.result.isRetryable

(***************************************************************************)
(* The body of an API operation: the function StravaApi.getActivity hands   *)
(* to this.limiter.schedule.  It makes one request, reports it to           *)
(* onApiCall, and turns an error status into a thrown error                 *)
(* (handleApiError).  The other four operations have the same body.         *)
(***************************************************************************)
MaxUsage == 2           \* the counts of X-RateLimit-Usage range over 0..MaxUsage

\* Number(x) of a header field that is not a number.
NaN == 0 - 1
\* retryAfter left undefined.
NoRetryAfter == 0 - 1

\* The value of headers.get("X-RateLimit-Usage"): missing or empty, one
\* field, or two comma separated fields.
UsageHeaders ==
    {<<>>, <<1>>} \cup {<<a, b>> : a, b \in (0..MaxUsage) \cup {NaN}}
\* The value of headers.get("X-RateLimit-Limit").
LimitHeaders == {<<>>, <<1, 1>>, <<1, NaN>>}

ApiStatuses == {200, 400, 401, 404, 429, 500, 502, 503}
Bodies == {{"Not Found"}, {"rate limit"}}

\* What fetch settles with: a response, or a rejection (network failure).
Responses ==
    [kind : {"response"}, status : ApiStatuses, body : Bodies,
     usage : UsageHeaders, limit : LimitHeaders]
        \cup [kind : {"failure"}, status : {0}, body : {{}},
              usage : {<<>>}, limit : {<<>>}]
NoFetchResult == [kind |-> "none", status |-> 0, body |-> {}, usage |-> <<>>,
                  limit |-> <<>>]

\* response.ok
Ok(response) == response.status >= 200 /\ response.status <= 299

\* const [a, b] = header.split(",").map(Number): a missing field is undefined.
Field(header, i) == IF i <= Len(header) THEN header[i] ELSE NaN

NullUsage ==
    [present |-> FALSE, shortTermUsed |-> NaN, shortTermLimit |-> NaN,
     dailyUsed |-> NaN, dailyLimit |-> NaN]

parseRateLimitHeaders(usage, limit) ==
    IF usage = <<>> \/ limit = <<>> THEN NullUsage
    ELSE IF \/ Field(usage, 1) = NaN \/ Field(usage, 1 + 1) = NaN
            \/ Field(limit, 1) = NaN \/ Field(limit, 1 + 1) = NaN
         THEN NullUsage
    ELSE [present |-> TRUE,
          shortTermUsed |-> Field(usage, 1), shortTermLimit |-> Field(limit, 1),
          dailyUsed |-> Field(usage, 1 + 1), dailyLimit |-> Field(limit, 1 + 1)]

\* A retry hint that looks at the short window first.
retryAfterShortTermFirst(rateLimitUsage) ==
    IF ~rateLimitUsage.present THEN NoRetryAfter
    ELSE IF rateLimitUsage.shortTermUsed >= rateLimitUsage.shortTermLimit THEN 900
    ELSE IF rateLimitUsage.dailyUsed >= rateLimitUsage.dailyLimit THEN 3600
    ELSE NoRetryAfter

\* RateLimitError's constructor: this.retryAfter.
retryAfter(rateLimitUsage) ==
    IF ~rateLimitUsage.present THEN NoRetryAfter
    ELSE IF rateLimitUsage.dailyUsed >= rateLimitUsage.dailyLimit THEN 3600
    ELSE IF rateLimitUsage.shortTermUsed >= rateLimitUsage.shortTermLimit THEN 900
    ELSE NoRetryAfter

\* new StravaApiError(error): an Error with the fields of the StravaError.
StravaApiError(error) ==
    [name |-> "StravaApiError", fields |-> TRUE, message |-> error.message,
     statusCode |-> error.statusCode, errorCode |-> error.errorCode,
     isRetryable |-> error.isRetryable, rateLimitUsage |-> NullUsage,
     retryAfter |-> NoRetryAfter]

\* new RateLimitError(error, rateLimitUsage)
RateLimitError(error, rateLimitUsage) ==
    [StravaApiError(error) EXCEPT !.name = "RateLimitError",
                                  !.rateLimitUsage = rateLimitUsage,
                                  !.retryAfter = retryAfter(rateLimitUsage)]

\* An error that is no StravaApiError: it has a name and a message only.
PlainError(name, message) ==
    [name |-> name, fields |-> FALSE, message |-> message,
     statusCode |-> NoStatus, errorCode |-> "none", isRetryable |-> FALSE,
     rateLimitUsage |-> NullUsage, retryAfter |-> NoRetryAfter]
NothingThrown == PlainError("none", {})

\* The hooks of the configuration: left out, returning, or throwing.
Hooks == {"absent", "returns", "throws"}

ApiConfigs ==
    [retry : [maxAttempts : 1..MaxAttempts], onApiCall : Hooks,
     onRateLimit : Hooks]

\* recordApiCall: one more onApiCall call when the hook is configured.
recordApiCall(a) ==
    IF a.config.onApiCall = "absent" THEN a
    ELSE [a EXCEPT !.apiCalls = @ + 1]

\* handleApiError(response, operation, context): what it throws, and whether
\* it called onRateLimit.
handleApiError(a, response) ==
    LET error == classifyError([shape |-> "object", message |-> response.body,
                                statusCode |-> response.status,
                                status |-> NoStatus])
        rateLimitUsage == parseRateLimitHeaders(response.usage, response.limit)
        hooked == rateLimitUsage.present /\ a.config.onRateLimit # "absent"
        b == IF hooked THEN [a EXCEPT !.rateLimitCalls = @ + 1] ELSE a
    IN  IF hooked /\ a.config.onRateLimit = "throws"
        THEN [b EXCEPT !.thrown = PlainError("Error", {"onRateLimit failed"})]
        ELSE IF error.errorCode = "RATE_LIMITED"
        THEN [b EXCEPT !.thrown = RateLimitError(error, rateLimitUsage)]
        ELSE [b EXCEPT !.thrown = StravaApiError(error)]

\* The try block of the operation once fetch has settled: the call either
\* returns the activity (nothing thrown) or throws.
TryBlock(a, response) ==
    IF response.kind = "failure"
    THEN [a EXCEPT !.thrown = PlainError("TypeError", {"fetch failed"})]
    ELSE LET b == recordApiCall(a)
         IN  IF a.config.onApiCall = "throws"
             THEN [b EXCEPT !.thrown = PlainError("Error", {"onApiCall failed"})]
             ELSE IF ~Ok(response) THEN handleApiError(b, response)
             ELSE b

\* The catch block: report the failed call, then rethrow the error.
CatchBlock(a) ==
    LET b == recordApiCall(a)
    IN  IF a.config.onApiCall = "throws"
        THEN [b EXCEPT !.pc = "rejected",
                       !.thrown = PlainError("Error", {"onApiCall failed"})]
        ELSE [b EXCEPT !.pc = "rejected"]

\* The operation from the settling of fetch to its own settling.
getActivity(a, response) ==
    LET tried == TryBlock([a EXCEPT !.response = response], response)
    IN  IF tried.thrown = NothingThrown
        THEN [tried EXCEPT !.pc = "resolved"]
        ELSE CatchBlock(tried)

\* The limiter has started the operation of a client with configuration c.
ApiCall(c) ==
    [pc |-> "started", config |-> c, requests |-> 0, response |-> NoFetchResult,
     thrown |-> NothingThrown, apiCalls |-> 0, rateLimitCalls |-> 0]

ApiInit ==
    /\ LimiterCreated([shortTermRequests |-> 1, dailyRequests |-> 1, minTime |-> 0])
    /\ retry = RetryOff
    /\ token = TokenOff
    /\ webhook = WebhookOff
    /\ verification = VerificationOff
    /\ classified = ClassifiedOff
    /\ api \in {ApiCall(c) : c \in ApiConfigs}
    /\ subscription = SubscriptionOff
    /\ FurtherOff

apiOthers == <<limiterVars, retry, token, webhook, verification, classified,
               subscription, furtherVars>>

\* The operation calls fetch.
Fetch ==
    /\ api.pc = "started"
    /\ api' = [api EXCEPT !.pc = "fetching", !.requests = @ + 1]
    /\ UNCHANGED apiOthers

\* fetch settles and the operation runs to its end.
FetchSettles(response) ==
    /\ api.pc = "fetching"
    /\ api' = getActivity(api, response)
    /\ UNCHANGED apiOthers

ApiNext ==
    \/ Fetch
    \/ \E response \in Responses : FetchSettles(response)

ApiSpec == ApiInit /\ [][ApiNext]_vars

\* C21: an operation whose request fails with a retryable classified error
\* is attempted again, up to the client's retry.maxAttempts requests, before
\* the failure reaches the caller; a failure that is not retryable reaches
\* the caller after one request.
C21_RetryableIsReattempted ==
    api.pc = "rejected" =>
        IF api.thrown.fields /\ api.thrown.isRetryable
        THEN api.requests = api.config.retry.maxAttempts
        ELSE api.requests = 1

\* Every failure reaches the caller after one request.
FailureAfterOneRequest == api.pc = "rejected" => api.requests = 1

(***************************************************************************)
(* One client instance: the limiter of its StravaApi together with a call   *)
(* of ensureValidToken on the same instance.  refreshAccessToken calls      *)
(* fetch itself; it does not go through this.limiter.                       *)
(***************************************************************************)
ClientInit ==
    /\ LimiterCreated([shortTermRequests |-> 3, dailyRequests |-> 1, minTime |-> 0])
    /\ retry = RetryOff
    /\ token \in {TokenCall("access-token", "refresh-token", e) :
                      e \in {TenMinutes - TenMinutes, TenMinutes + TenMinutes}}
    /\ OthersOff

ClientNext ==
    \/ Next
    \/ TokenNext

ClientSpec == ClientInit /\ [][ClientNext]_vars

\* C22: the token refresh request is admitted through the limiter of the
\* client: while it is in flight it occupies the limiter (it has consumed
\* the reservoir and holds the one concurrency slot), so no scheduled API
\* request of the same instance is in flight with it.
C22_RefreshThroughLimiter ==
    token.pc = "refreshing" =>
        /\ running >= 1
        /\ reservoir < Reservoir(config.shortTermRequests) \/ sinceRefresh > 0
        /\ \A j \in Jobs : status[j] # "EXECUTING"

\* C23: when an operation run by the limiter rejects, the caller of the API
\* method gets that rejection (the promise of schedule settles with the
\* operation's outcome), the limiter never executes the operation again,
\* and the operations queued behind it still run: the rejection frees the
\* slot and the oldest queued operation is registered at once whenever the
\* reservoir is not empty.
C23_RejectionPropagatesAndFrees ==
    /\ [](\A j \in Jobs : result[j] = "rejected" => status[j] = "DONE")
    /\ [][\A j \in Jobs :
             /\ status[j] = "DONE" => status'[j] = "DONE" /\ result'[j] = result[j]
             /\ (status[j] = "EXECUTING" /\ result'[j] = "rejected") =>
                    /\ status'[j] = "DONE"
                    /\ (queue # <<>> /\ reservoir >= 1) =>
                           /\ status'[Head(queue)] = "RUNNING"
                           /\ running' = 1]_vars

\* The first operation rejected and the one queued behind it has started.
C23_Witness ==
    /\ result[1] = "rejected"
    /\ status[1] = "DONE"
    /\ nSubmitted >= 1 + 1
    /\ Started(1 + 1)

\* C24: when the refresh call fails, ensureValidToken rejects with that
\* failure after exactly one refresh request and returns no token data; it
\* does not fall back to the old token.
C24_RefreshFailureRejects ==
    token.pc # "off" =>
        (token.failure # Undefined =>
            /\ token.pc = "rejected"
            /\ token.error = token.failure
            /\ token.fetches = 1
            /\ token.out = NoTokenData)

\* The refresh of an expired token failed with the error status of the
\* token endpoint.
C24_Witness ==
    /\ token.pc = "rejected"
    /\ token.failure = "Token refresh failed"
    /\ token.in.expiresAt < token.now
    /\ token.fetches = 1

\* C25: every failure of an API operation (error status, failed request)
\* reaches the caller as a rejection that carries the ClassifiedError fields
\* errorCode, isRetryable, statusCode and message.
C25_FailuresAreClassified ==
    api.pc = "rejected" =>
        /\ api.thrown.fields
        /\ api.thrown.errorCode # "none"

\* An error status reaches the caller as a StravaApiError with the fields of
\* classifyError, unless a monitoring hook throws on the way.
ErrorStatusIsClassified ==
    (/\ api.pc = "rejected"
     /\ api.response.kind = "response"
     /\ api.config.onApiCall # "throws"
     /\ api.config.onRateLimit # "throws") =>
        /\ api.thrown.fields
        /\ api.thrown.name \in {"StravaApiError", "RateLimitError"}
        /\ api.thrown.statusCode = api.response.status

\* C26: every response classified RATE_LIMITED is thrown as a RateLimitError
\* that carries a retryAfter hint, with or without rate-limit usage headers.
C26_RateLimitedCarriesRetryAfter ==
    (api.pc = "rejected" /\ api.thrown.errorCode = "RATE_LIMITED") =>
        /\ api.thrown.name = "RateLimitError"
        /\ api.thrown.retryAfter # NoRetryAfter

\* A classified RATE_LIMITED failure is a RateLimitError.
RateLimitedIsRateLimitError ==
    (api.pc = "rejected" /\ api.thrown.errorCode = "RATE_LIMITED") =>
        api.thrown.name = "RateLimitError"

\* C27: retryAfter of a RateLimitError is 3600 whenever dailyUsed >=
\* dailyLimit, also when the short window is exhausted too, and 900 when
\* only shortTermUsed >= shortTermLimit.
C27_RetryAfterDailyFirst ==
    (/\ api.pc = "rejected"
     /\ api.thrown.name = "RateLimitError"
     /\ api.thrown.rateLimitUsage.present) =>
        LET u == api.thrown.rateLimitUsage
        IN  /\ u.dailyUsed >= u.dailyLimit => api.thrown.retryAfter = 3600
            /\ (u.dailyUsed < u.dailyLimit /\ u.shortTermUsed >= u.shortTermLimit)
                   => api.thrown.retryAfter = 900

\* A 429 whose headers show both windows exhausted: the hint is one hour.
C27_Witness ==
    /\ api.pc = "rejected"
    /\ api.thrown.name = "RateLimitError"
    /\ api.response.usage = <<1, 1>>
    /\ api.response.limit = <<1, 1>>
    /\ api.thrown.rateLimitUsage.shortTermUsed >= api.thrown.rateLimitUsage.shortTermLimit
    /\ api.thrown.retryAfter = 3600

(***************************************************************************)
(* StravaWebhooks.createSubscription(callbackUrl): one call.  It looks up   *)
(* the existing subscription (viewSubscription, a GET), then tests the      *)
(* callback URL, then posts the new subscription.                           *)
(***************************************************************************)

\* Callback URLs: a scheme as written and a host; a text without scheme is
\* not a URL.
CallbackUrls ==
    [scheme : {"https", "HTTPS", "http", "ws", ""},
     host : {"example.com", "localhost", "10.0.0.1"}]

\* new URL(url).protocol: the scheme in lower case with a colon; the
\* constructor throws for a text that is not a URL.
Protocol(url) ==
    IF url.scheme = "" THEN "throws"
    ELSE IF url.scheme \in {"https", "HTTPS"} THEN "https:"
    ELSE IF url.scheme = "http" THEN "http:"
    ELSE "ws:"

isHttpsUrl(url) == Protocol(url) # "throws" /\ Protocol(url) = "https:"

\* What the GET of viewSubscription settles with: a failed request, an
\* error status, or a JSON array of subscription ids.
ViewResponses ==
    [kind : {"failure"}, status : {0}, data : {<<>>}]
        \cup [kind : {"response"}, status : {401, 500}, data : {<<>>}]
        \cup [kind : {"response"}, status : {200}, data : {<<>>, <<123>>, <<123, 456>>}]
\* What the POST settles with.
PostResponses ==
    [kind : {"failure"}, status : {0}, data : {<<>>}]
        \cup [kind : {"response"}, status : {400}, data : {<<>>}]
        \cup [kind : {"response"}, status : {200}, data : {<<456>>}]
NoSubscriptionResponse == [kind |-> "none", status |-> 0, data |-> <<>>]

SubscriptionExists == "Subscription already exists. Delete existing subscription first."
MustUseHttps == "Callback URL must use HTTPS protocol"

\* viewSubscription(): it throws for a failed request or an error status,
\* returns the first subscription of a non-empty array and null (0) otherwise.
viewSubscription(response) ==
    IF response.kind = "failure" THEN [threw |-> "fetch failed", value |-> 0]
    ELSE IF ~Ok(response) THEN [threw |-> "Failed to view subscription", value |-> 0]
    ELSE IF Len(response.data) > 0 THEN [threw |-> "", value |-> response.data[1]]
    ELSE [threw |-> "", value |-> 0]

\* A createSubscription that posts without looking at the existing one.
createSubscriptionIgnoringExisting(s, response) ==
    LET existing == viewSubscription(response)
        viewed == [s EXCEPT !.view = response]
    IN  IF existing.threw # ""
        THEN [viewed EXCEPT !.pc = "rejected", !.error = existing.threw]
        ELSE IF ~isHttpsUrl(s.callbackUrl)
        THEN [viewed EXCEPT !.pc = "rejected", !.error = MustUseHttps]
        ELSE [viewed EXCEPT !.pc = "posting", !.requests = Append(@, "POST")]

\* createSubscription from the settling of the lookup to its next await.
createSubscription(s, response) ==
    LET existing == viewSubscription(response)
        viewed == [s EXCEPT !.view = response]
    IN  IF existing.threw # ""
        THEN [viewed EXCEPT !.pc = "rejected", !.error = existing.threw]
        ELSE IF existing.value # 0
        THEN [viewed EXCEPT !.pc = "rejected", !.error = SubscriptionExists]
        ELSE IF ~isHttpsUrl(s.callbackUrl)
        THEN [viewed EXCEPT !.pc = "rejected", !.error = MustUseHttps]
        ELSE [viewed EXCEPT !.pc = "posting", !.requests = Append(@, "POST")]

SubscriptionCall(callbackUrl) ==
    [pc |-> "called", callbackUrl |-> callbackUrl, requests |-> <<>>,
     view |-> NoSubscriptionResponse, post |-> NoSubscriptionResponse,
     value |-> 0, error |-> ""]

SubscriptionInit ==
    /\ LimiterCreated([shortTermRequests |-> 1, dailyRequests |-> 1, minTime |-> 0])
    /\ retry = RetryOff
    /\ token = TokenOff
    /\ webhook = WebhookOff
    /\ verification = VerificationOff
    /\ classified = ClassifiedOff
    /\ api = ApiOff
    /\ subscription \in {SubscriptionCall(u) : u \in CallbackUrls}
    /\ FurtherOff

subscriptionOthers == <<limiterVars, retry, token, webhook, verification,
                        classified, api, furtherVars>>

\* createSubscription runs up to its first await: the GET of viewSubscription.
CreateSubscription ==
    /\ subscription.pc = "called"
    /\ subscription' = [subscription EXCEPT !.pc = "viewing",
                                            !.requests = Append(@, "GET")]
    /\ UNCHANGED subscriptionOthers

\* The lookup settles.
ViewSettles(response) ==
    /\ subscription.pc = "viewing"
    /\ subscription' = createSubscription(subscription, response)
    /\ UNCHANGED subscriptionOthers

\* The POST settles: the new subscription is returned, or the call rejects.
PostSettles(response) ==
    /\ subscription.pc = "posting"
    /\ subscription' =
           IF response.kind = "failure"
           THEN [subscription EXCEPT !.pc = "rejected", !.post = response,
                                     !.error = "fetch failed"]
           ELSE IF ~Ok(response)
           THEN [subscription EXCEPT !.pc = "rejected", !.post = response,
                                     !.error = "Failed to create subscription"]
           ELSE [subscription EXCEPT !.pc = "resolved", !.post = response,
                                     !.value = response.data[1]]
    /\ UNCHANGED subscriptionOthers

SubscriptionNext ==
    \/ CreateSubscription
    \/ \E response \in ViewResponses : ViewSettles(response)
    \/ \E response \in PostResponses : PostSettles(response)

SubscriptionSpec == SubscriptionInit /\ [][SubscriptionNext]_vars

\* C28: createSubscription with a callback URL that is not HTTPS rejects
\* before any network request is issued.
C28_NonHttpsRejectsBeforeRequest ==
    (/\ subscription.pc \notin {"off", "called"}
     /\ subscription.callbackUrl.scheme \notin {"https", "HTTPS"}) =>
        /\ subscription.pc = "rejected"
        /\ subscription.requests = <<>>

\* A callback URL that is not HTTPS is never posted.
NonHttpsNeverPosted ==
    (/\ subscription.pc \notin {"off", "called"}
     /\ subscription.callbackUrl.scheme \notin {"https", "HTTPS"}) =>
        /\ subscription.pc \in {"viewing", "rejected"}
        /\ subscription.requests = <<"GET">>

\* C29: createSubscription first looks up the existing subscription; when
\* one exists it rejects with "Subscription already exists" and never issues
\* the create POST.
C29_ExistingSubscriptionRejects ==
    subscription.pc \notin {"off", "called"} =>
        /\ subscription.requests[1] = "GET"
        /\ (/\ subscription.view.kind = "response"
            /\ subscription.view.status = 200
            /\ subscription.view.data # <<>>) =>
                /\ subscription.pc = "rejected"
                /\ subscription.error
                       = "Subscription already exists. Delete existing subscription first."
                /\ subscription.requests = <<"GET">>

\* An HTTPS callback URL while a subscription exists: rejected after the
\* lookup alone.
C29_Witness ==
    /\ subscription.pc = "rejected"
    /\ subscription.callbackUrl = [scheme |-> "https", host |-> "example.com"]
    /\ subscription.view.data = <<123>>
    /\ subscription.error = SubscriptionExists
    /\ subscription.requests = <<"GET">>

(***************************************************************************)
(* The limiter with start timers that fire when they are due: time does not *)
(* advance by a whole unit while the timer of a registered job has run out. *)
(***************************************************************************)
TimerDue == \E j \in Jobs : status[j] = "RUNNING" /\ startIn[j] = 0

PunctualTick == ~TimerDue /\ Tick

PunctualNext ==
    \/ \E op \in Operations : Schedule(op)
    \/ \E j \in Jobs : Execute(j)
    \/ \E j \in Jobs : \E outcome \in {"resolved", "rejected"} : Complete(j, outcome)
    \/ Refresh
    \/ PunctualTick

PunctualSpec == Init /\ [][PunctualNext]_vars

OnRetryBeforeDelay ==
    /\ \A k \in 1..Len(retry.onRetryCalls) :
          /\ retry.onRetryCalls[k][1] = k - 1
          /\ retry.onRetryCalls[k][2] \in Errors
    /\ Len(retry.onRetryCalls) <= retry.failures
    /\ Len(retry.slept) + (IF retry.pc = "sleeping" THEN 1 ELSE 0)
           <= Len(retry.onRetryCalls)

\* Once the call has ended, every onRetry(i, error) was followed by attempt i+1.
RetryFollowsOnRetry ==
    retry.pc \in {"resolved", "rejected"} =>
        \A k \in 1..Len(retry.onRetryCalls) :
            retry.invocations >= retry.onRetryCalls[k][1] + 1 + 1

\* C31: onRetry(i, error) is called after attempt i fails and before the delay
\* that precedes attempt i+1, and once it has been called attempt i+1 is always
\* executed, whatever onRetry does.
C31_OnRetryNeverSuppresses ==
    retry.onRetry # "absent" => (OnRetryBeforeDelay /\ RetryFollowsOnRetry)

\* What holds: an onRetry that returns normally is called before each delay
\* and is always followed by the next attempt.
ReturningOnRetryNeverSuppresses ==
    retry.onRetry = "returns" => (OnRetryBeforeDelay /\ RetryFollowsOnRetry)

(***************************************************************************)
(* The delay functions on their own: one call of calculateRetryDelay or of *)
(* getRetryDelay, next to the calls retryWithBackoff makes of them.        *)
(***************************************************************************)

MaxAttemptNumber == 7   \* attemptNumber ranges over 0..MaxAttemptNumber

\* The maxDelay arguments: the default and the one of the repository's test.
MaxDelayArguments == {DefaultMaxDelay, 5000}

BackoffCall(attemptNumber, maxDelay, configuredDelays) ==
    [pc |-> "start", attemptNumber |-> attemptNumber,
     baseDelay |-> DefaultBaseDelay, maxDelay |-> maxDelay,
     configuredDelays |-> configuredDelays, result |-> Null]

BackoffInit ==
    /\ LimiterCreated([shortTermRequests |-> 1, dailyRequests |-> 1, minTime |-> 0])
    /\ token = TokenOff
    /\ webhook = WebhookOff
    /\ verification = VerificationOff
    /\ classified = ClassifiedOff
    /\ api = ApiOff
    /\ subscription = SubscriptionOff
    /\ StravaClientOff
    /\ \/ /\ retry \in {RetryCall(o) : o \in RetryOptions}
          /\ backoff = BackoffOff
       \/ /\ retry = RetryOff
          /\ backoff \in {BackoffCall(n, m, d) : n \in 0..MaxAttemptNumber,
                                                 m \in MaxDelayArguments,
                                                 d \in DelayOptions}

backoffOthers == <<limiterVars, retry, token, webhook, verification, classified,
                   api, subscription, clientVars>>

\* calculateRetryDelay(attemptNumber, baseDelay, maxDelay) is called.
CalculateRetryDelay ==
    /\ backoff.pc = "start"
    /\ backoff' = [backoff EXCEPT
                     !.pc = "calculated",
                     !.result = calculateRetryDelay(backoff.attemptNumber,
                                                    backoff.baseDelay,
                                                    backoff.maxDelay)]
    /\ UNCHANGED backoffOthers

\* getRetryDelay(attemptNumber, configuredDelays) is called.
GetRetryDelay ==
    /\ backoff.pc = "start"
    /\ backoff' = [backoff EXCEPT
                     !.pc = "got",
                     !.result = getRetryDelay(backoff.attemptNumber,
                                              backoff.configuredDelays)]
    /\ UNCHANGED backoffOthers

BackoffNext ==
    \/ RetryNext
    \/ CalculateRetryDelay
    \/ GetRetryDelay

BackoffSpec == BackoffInit /\ [][BackoffNext]_vars

\* No delay sequence is configured, or the configured sequence is empty.
NoSequence(delays) == ~delays.configured \/ delays.seq = <<>>

\* min(1000 * 2^i, 60000)
ExponentialDelay(i) ==
    IF 1000 * (2 ^ i) <= 60000 THEN 1000 * (2 ^ i) ELSE 60000

\* C32: when no delay sequence is configured, or the configured sequence is
\* empty, the delay before the retry that follows failed attempt i is
\* min(1000 * 2^i, 60000) milliseconds and never null, so a missing delay never
\* ends the retries: a call that rejects with the operation's error before its
\* last attempt does so because shouldRetry refused the error.
C32_ExponentialWhenNoSequence ==
    /\ (backoff.pc = "got" /\ NoSequence(backoff.configuredDelays)) =>
          /\ backoff.result = ExponentialDelay(backoff.attemptNumber)
          /\ backoff.result # Null
    /\ (retry.pc # "off" /\ NoSequence(retry.delays)) =>
          /\ \A k \in 1..Len(retry.slept) :
                retry.slept[k] = ExponentialDelay(k - 1)
          /\ retry.pc = "sleeping" =>
                retry.sleepFor = ExponentialDelay(retry.attempt)
          /\ (/\ retry.pc = "rejected"
              /\ retry.maxAttempts >= 1
              /\ retry.attempt < retry.maxAttempts - 1
              /\ retry.thrown = retry.lastError) =>
                retry.lastError \notin retry.retryable

\* getRetryDelay(6, []) is capped at 60000.
C32_Witness ==
    /\ backoff.pc = "got"
    /\ backoff.configuredDelays.configured
    /\ backoff.configuredDelays.seq = <<>>
    /\ backoff.attemptNumber = 6
    /\ backoff.result = 60000

(***************************************************************************)
(* Further claims about the webhook dispatcher (checked under WebhookSpec). *)
(***************************************************************************)

\* How often a handler is registered on a list, and how often it was called.
Registrations(list, behaviour) ==
    Cardinality({i \in 1..Len(list) : list[i] = behaviour})
Invocations(behaviour) ==
    Cardinality({i \in 1..Len(webhook.calls) :
                    webhook.calls[i].behaviour = behaviour})

\* No step removes, reorders or deduplicates a registered handler: every list
\* keeps what it held and at most grows at its end.
HandlersOnlyAppended ==
    \A key \in HandlerKeys :
        /\ Len(webhook'.handlers[key]) >= Len(webhook.handlers[key])
        /\ \A i \in 1..Len(webhook.handlers[key]) :
               webhook'.handlers[key][i] = webhook.handlers[key][i]

\* C33: handler registration only appends: a handler registered k times for
\* one event type is invoked exactly k times per matching event, and no
\* operation removes or deduplicates a registered handler.
C33_RegisteredKTimesInvokedKTimes ==
    /\ [](Routed =>
            \A behaviour \in HandlerBehaviours :
                Invocations(behaviour) =
                    Registrations(webhook.handlers[processEvent(webhook.event)],
                                  behaviour))
    /\ [][HandlersOnlyAppended]_vars

\* What holds: lists only grow, and a handler registered k times is invoked
\* k times unless a handler threw inside the map.
InvokedKTimesUnlessThrown ==
    /\ [](Routed =>
            \/ \E i \in 1..Len(webhook.calls) : webhook.calls[i].state = "threw"
            \/ \A behaviour \in HandlerBehaviours :
                   Invocations(behaviour) =
                       Registrations(webhook.handlers[processEvent(webhook.event)],
                                     behaviour))
    /\ [][HandlersOnlyAppended]_vars

(***************************************************************************)
(* StravaClient.getActivityWithRefresh / updateActivityWithRefresh: two    *)
(* callers over one MemoryStorage.  Instants are multiples of the refresh  *)
(* buffer; the API request of a call waits in the limiter's queue until it *)
(* is dispatched.                                                          *)
(***************************************************************************)

MaxClock == 3           \* the clock runs from 0 to MaxClock * ClockStep

ClockStep == TOKEN_REFRESH_BUFFER
Callers == {1, 1 + 1}
Athletes == {"athlete-1", "athlete-2"}
Methods == {"getActivityWithRefresh", "updateActivityWithRefresh"}

\* storage.getTokens answers null for an athlete without a record.
NullTokens ==
    [athleteId |-> "null", accessToken |-> Undefined, refreshToken |-> Undefined,
     expiresAt |-> 0, scopes |-> Undefined]

\* The records stored before the calls: the token triple and the other fields.
StoredTokens(athleteId, expiresAt) ==
    [athleteId |-> athleteId, accessToken |-> "access-token",
     refreshToken |-> "refresh-token", expiresAt |-> expiresAt,
     scopes |-> "activity:read_all"]

\* The token endpoint's answers to the refresh requests of the calls.
ClientRefreshResponses == {r \in RefreshResponses : r.expires_at = 600 + 21600}

\* MemoryStorage.getTokens: this.tokens.get(athleteId) ?? null
getTokens(map, athleteId) == map[athleteId]

\* A save that merges the new triple into the record stored at that moment,
\* keeping the stored refresh token.
saveTokensMerging(map, athleteId, tokens) ==
    [map EXCEPT ![athleteId] =
        IF @ = NullTokens THEN tokens
        ELSE [@ EXCEPT !.accessToken = tokens.accessToken,
                       !.expiresAt = tokens.expiresAt]]

\* MemoryStorage.saveTokens: this.tokens.set(athleteId, tokens)
saveTokens(map, athleteId, tokens) == [map EXCEPT ![athleteId] = tokens]

\* A saved record that holds the new triple alone.
TripleOnly(tokens, validTokens) ==
    [NullTokens EXCEPT !.athleteId = tokens.athleteId,
                       !.accessToken = validTokens.accessToken,
                       !.refreshToken = validTokens.refreshToken,
                       !.expiresAt = validTokens.expiresAt]

\* { ...tokens, accessToken, refreshToken, expiresAt } of validTokens
SavedRecord(tokens, validTokens) ==
    [tokens EXCEPT !.accessToken = validTokens.accessToken,
                   !.refreshToken = validTokens.refreshToken,
                   !.expiresAt = validTokens.expiresAt]

NotCalled ==
    [pc |-> "idle", method |-> "none", athleteId |-> "none",
     tokens |-> NullTokens, validTokens |-> NoTokenData,
     refreshRequests |-> 0, guardAt |-> 0, savedBeforeRequest |-> FALSE,
     sentToken |-> Undefined, dispatchedAt |-> 0, error |-> Undefined]

StravaClientInit ==
    /\ LimiterCreated([shortTermRequests |-> 1, dailyRequests |-> 1, minTime |-> 0])
    /\ retry = RetryOff
    /\ token = TokenOff
    /\ webhook = WebhookOff
    /\ verification = VerificationOff
    /\ classified = ClassifiedOff
    /\ api = ApiOff
    /\ subscription = SubscriptionOff
    /\ backoff = BackoffOff
    /\ clock = 0
    /\ \E k \in 0..(MaxClock + 1) :
          storage = [a \in Athletes |->
                        IF a = "athlete-1"
                        THEN StoredTokens(a, k * ClockStep) ELSE NullTokens]
    /\ writes = <<>>
    /\ clientCalls = [p \in Callers |-> NotCalled]

clientOthers == <<limiterVars, retry, token, webhook, verification, classified,
                  api, subscription, backoff>>

\* The method is called: it runs up to await this.storage.getTokens(athleteId),
\* which reads the map.
CallWithRefresh(p, method, athleteId) ==
    /\ clientCalls[p].pc = "idle"
    /\ clientCalls' = [clientCalls EXCEPT
                         ![p].pc = "getTokens",
                         ![p].method = method,
                         ![p].athleteId = athleteId,
                         ![p].tokens = getTokens(storage, athleteId)]
    /\ UNCHANGED <<clock, storage, writes, clientOthers>>

\* getTokens has answered: without tokens the call throws; with tokens
\* ensureValidToken reads the clock and returns them or posts a refresh.
GotTokens(p) ==
    /\ clientCalls[p].pc = "getTokens"
    /\ LET c == clientCalls[p]
       IN  clientCalls' =
             IF c.tokens = NullTokens
             THEN [clientCalls EXCEPT ![p].pc = "rejected",
                                      ![p].error = "No tokens found for athlete"]
             ELSE IF NeedsRefresh(c.tokens.expiresAt, clock)
             THEN [clientCalls EXCEPT ![p].pc = "refreshing",
                                      ![p].guardAt = clock,
                                      ![p].refreshRequests = @ + 1]
             ELSE [clientCalls EXCEPT ![p].pc = "validated",
                                      ![p].guardAt = clock,
                                      ![p].validTokens = NotRefreshed(c.tokens)]
    /\ UNCHANGED <<clock, storage, writes, clientOthers>>

\* The token endpoint answers the refresh request of caller p.
ClientRefreshSucceeds(p, tokenData) ==
    /\ clientCalls[p].pc = "refreshing"
    /\ clientCalls' = [clientCalls EXCEPT
                         ![p].pc = "validated",
                         ![p].validTokens = Refreshed(tokenData, clientCalls[p].tokens)]
    /\ UNCHANGED <<clock, storage, writes, clientOthers>>

\* The refresh request of caller p fails: ensureValidToken and the call reject.
ClientRefreshFails(p) ==
    /\ clientCalls[p].pc = "refreshing"
    /\ clientCalls' = [clientCalls EXCEPT ![p].pc = "rejected",
                                          ![p].error = "Token refresh failed"]
    /\ UNCHANGED <<clock, storage, writes, clientOthers>>

\* ensureValidToken has returned: after a refresh the record is saved and the
\* call awaits saveTokens; otherwise the API operation is scheduled at once.
Validated(p) ==
    /\ clientCalls[p].pc = "validated"
    /\ LET c == clientCalls[p]
           record == SavedRecord(c.tokens, c.validTokens)
       IN  IF c.validTokens.wasRefreshed
           THEN /\ storage' = saveTokens(storage, c.athleteId, record)
                /\ writes' = Append(writes, [by |-> p, athleteId |-> c.athleteId,
                                             tokens |-> record])
                /\ clientCalls' = [clientCalls EXCEPT ![p].pc = "saving"]
           ELSE /\ clientCalls' = [clientCalls EXCEPT ![p].pc = "queued"]
                /\ UNCHANGED <<storage, writes>>
    /\ UNCHANGED <<clock, clientOthers>>

\* saveTokens has resolved: api.getActivity / api.updateActivity is called and
\* schedules its request on the limiter.
Saved(p) ==
    /\ clientCalls[p].pc = "saving"
    /\ clientCalls' = [clientCalls EXCEPT ![p].pc = "queued"]
    /\ UNCHANGED <<clock, storage, writes, clientOthers>>

\* The limiter executes the operation of caller p: the request is sent with
\* the access token the call was given.
Dispatch(p) ==
    /\ clientCalls[p].pc = "queued"
    /\ clientCalls' = [clientCalls EXCEPT
                         ![p].pc = "requested",
                         ![p].sentToken = clientCalls[p].validTokens.accessToken,
                         ![p].dispatchedAt = clock,
                         ![p].savedBeforeRequest =
                             \E i \in 1..Len(writes) : writes[i].by = p]
    /\ UNCHANGED <<clock, storage, writes, clientOthers>>

\* Time passes.
ClockTick ==
    /\ clock < MaxClock * ClockStep
    /\ clock' = clock + ClockStep
    /\ UNCHANGED <<storage, writes, clientCalls, clientOthers>>

StravaClientNext ==
    \/ \E p \in Callers : \E method \in Methods : \E athleteId \in Athletes :
           CallWithRefresh(p, method, athleteId)
    \/ \E p \in Callers : GotTokens(p)
    \/ \E p \in Callers : \E tokenData \in ClientRefreshResponses :
           ClientRefreshSucceeds(p, tokenData)
    \/ \E p \in Callers : ClientRefreshFails(p)
    \/ \E p \in Callers : Validated(p)
    \/ \E p \in Callers : Saved(p)
    \/ \E p \in Callers : Dispatch(p)
    \/ ClockTick

StravaClientSpec == StravaClientInit /\ [][StravaClientNext]_vars

\* The saveTokens calls made by caller p.
WritesBy(p) == {i \in 1..Len(writes) : writes[i].by = p}

\* C34: when ensureValidToken reports wasRefreshed, the new accessToken,
\* refreshToken and expiresAt are saved under the athlete id, every other
\* field of the stored record kept, before the API request is issued; when it
\* reports not refreshed, the call performs no storage write.
C34_RefreshedTripleIsSaved ==
    \A p \in Callers :
        LET c == clientCalls[p]
        IN  /\ (c.pc \in {"saving", "queued", "requested"} /\ c.validTokens.wasRefreshed) =>
                  /\ Cardinality(WritesBy(p)) = 1
                  /\ \A i \in WritesBy(p) :
                        /\ writes[i].athleteId = c.athleteId
                        /\ writes[i].tokens.accessToken = c.validTokens.accessToken
                        /\ writes[i].tokens.refreshToken = c.validTokens.refreshToken
                        /\ writes[i].tokens.expiresAt = c.validTokens.expiresAt
                        /\ writes[i].tokens.athleteId = c.tokens.athleteId
                        /\ writes[i].tokens.scopes = c.tokens.scopes
                  /\ c.pc = "requested" => c.savedBeforeRequest
            /\ ~c.validTokens.wasRefreshed => WritesBy(p) = {}

\* A call that refreshed has sent its request, another that did not refresh
\* has sent its request too.
C34_Witness ==
    /\ clientCalls[1].pc = "requested"
    /\ clientCalls[1].validTokens.wasRefreshed
    /\ clientCalls[1].method = "updateActivityWithRefresh"
    /\ clientCalls[1 + 1].pc = "requested"
    /\ ~clientCalls[1 + 1].validTokens.wasRefreshed
    /\ Len(writes) = 1

\* C35: no API request is dispatched with an access token that is already
\* expired at the moment of dispatch: a token that passed the refresh guard is
\* still unexpired when the limiter executes the request, however long the
\* operation waited in the queue.
C35_TokenUnexpiredAtDispatch ==
    \A p \in Callers :
        clientCalls[p].pc = "requested" =>
            clientCalls[p].validTokens.expiresAt >= clientCalls[p].dispatchedAt

\* What holds: when ensureValidToken answers, the token it returns expires
\* more than the refresh buffer after the instant the guard read.
TokenUnexpiredAtGuard ==
    \A p \in Callers :
        clientCalls[p].pc \in {"validated", "saving", "queued", "requested"} =>
            clientCalls[p].validTokens.expiresAt
                > clientCalls[p].guardAt + TOKEN_REFRESH_BUFFER

\* The token triple of a stored record or of a TokenData.
Triple(t) == <<t.accessToken, t.refreshToken, t.expiresAt>>

\* Both callers called for the same athlete, both refreshed and both have
\* saved.
BothRefreshedAndSaved ==
    /\ clientCalls[1].athleteId = clientCalls[1 + 1].athleteId
    /\ \A p \in Callers :
          /\ clientCalls[p].pc \in {"saving", "queued", "requested"}
          /\ clientCalls[p].validTokens.wasRefreshed

\* C37: there is no per-identity mutual exclusion: two concurrent calls for
\* the same athlete whose token is inside the refresh buffer can both issue a
\* refresh request, and after both complete the stored record holds the
\* complete token triple of exactly one of the two refresh responses, never a
\* mixture of fields from both.
C37_StoredTripleOfOneResponse ==
    BothRefreshedAndSaved =>
        \E p \in Callers :
            /\ Triple(storage[clientCalls[p].athleteId])
                   = Triple(clientCalls[p].validTokens)
            /\ storage[clientCalls[p].athleteId]
                   = SavedRecord(clientCalls[p].tokens, clientCalls[p].validTokens)

\* Both callers issued a refresh request for athlete-1, got responses that
\* differ in access token and refresh token, saved and sent their requests.
C37_Witness ==
    /\ BothRefreshedAndSaved
    /\ \A p \in Callers :
          /\ clientCalls[p].pc = "requested"
          /\ clientCalls[p].refreshRequests = 1
          /\ clientCalls[p].method = "getActivityWithRefresh"
    /\ clientCalls[1].validTokens.accessToken # clientCalls[1 + 1].validTokens.accessToken
    /\ clientCalls[1].validTokens.refreshToken # clientCalls[1 + 1].validTokens.refreshToken
    /\ Len(writes) = 1 + 1

(***************************************************************************)
(* The limiter with a record of its recent starts: callers go on calling,  *)
(* timers fire when they are due, and every start is counted in the time   *)
(* unit it falls in.                                                       *)
(***************************************************************************)

\* A caller whose operation has finished calls an operation again.
ScheduleAgain(j) ==
    /\ status[j] = "DONE"
    /\ result' = [result EXCEPT ![j] = "pending"]
    /\ LET L == [Limiter EXCEPT !.queue = Append(@, j), !.status[j] = "QUEUED"]
       IN  SetLimiter(DrainAll(L))
    /\ UNCHANGED <<config, nSubmitted, sinceRefresh, dailySince, sinceStart,
                   recentStarts, retry, token, otherVars>>

CountedExecute(j) ==
    /\ Begins(j)
    /\ recentStarts' = [recentStarts EXCEPT ![1] = @ + 1]

CountedTick ==
    /\ ~TimerDue
    /\ Passes
    /\ recentStarts' = [i \in 1..ShortPer |->
                           IF i = 1 THEN 0 ELSE recentStarts[i - 1]]

WindowNext ==
    \/ \E op \in Operations : Schedule(op)
    \/ \E j \in Jobs : ScheduleAgain(j)
    \/ \E j \in Jobs : CountedExecute(j)
    \/ \E j \in Jobs : \E outcome \in {"resolved", "rejected"} : Complete(j, outcome)
    \/ Refresh
    \/ CountedTick

WindowSpec == Init /\ [][WindowNext]_vars

RECURSIVE SumTo(_, _)
SumTo(f, n) == IF n = 0 THEN 0 ELSE f[n] + SumTo(f, n - 1)

\* The number of operations started in the last shortTerm.per time units.
StartedInRollingWindow == SumTo(recentStarts, ShortPer)

\* C36: in any rolling interval of length shortTerm.per the number of
\* operations dispatched by the limiter never exceeds the nominal short-window
\* quota shortTerm.requests, including intervals that straddle a reservoir
\* refresh.
C36_RollingWindowWithinQuota ==
    StartedInRollingWindow <= config.shortTermRequests

\* What holds: between two reservoir refreshes the limiter admits at most
\* floor(0.9 * shortTerm.requests) operations, so a rolling interval, which
\* meets at most two such periods, sees at most twice that number.
RollingWindowWithinTwoReservoirs ==
    /\ shortUsed <= Reservoir(config.shortTermRequests)
    /\ StartedInRollingWindow <= Reservoir(config.shortTermRequests)
                                     + Reservoir(config.shortTermRequests)

(***************************************************************************)
(* Further claims about the API operations (checked under ApiSpec).        *)
(***************************************************************************)

\* C38: the onApiCall monitoring hook is invoked exactly once per API
\* operation call (once per HTTP request issued), for successful responses,
\* HTTP error responses and transport failures alike.
C38_OnApiCallOncePerCall ==
    (api.pc \in {"resolved", "rejected"} /\ api.config.onApiCall # "absent") =>
        /\ api.requests = 1
        /\ api.apiCalls = api.requests

\* What holds with a hook that returns: one invocation for a successful
\* response and for a transport failure, two for an HTTP error response.
OnApiCallOnceUnlessErrorStatus ==
    (api.pc \in {"resolved", "rejected"} /\ api.config.onApiCall = "returns") =>
        /\ api.requests = 1
        /\ api.apiCalls = IF api.response.kind # "failure" /\ ~Ok(api.response)
                          THEN 1 + 1 ELSE 1

\* The operation ended with the error handleApiError built for an HTTP error
\* response.
ThrownByHandleApiError ==
    /\ api.pc = "rejected"
    /\ api.response.kind # "failure"
    /\ ~Ok(api.response)
    /\ api.thrown.fields

\* C39: for an HTTP error response with body text B, the error thrown by the
\* API operation carries B as its message.
C39_BodyIsTheMessage ==
    ThrownByHandleApiError => api.thrown.message = api.response.body

\* What holds: the error carries the status of the response, and its message
\* is getErrorMessage's text for a value that is neither an Error nor a string.
StatusKeptMessageUnknown ==
    ThrownByHandleApiError =>
        /\ api.thrown.statusCode = api.response.status
        /\ api.thrown.message = UnknownErrorOccurred

(***************************************************************************)
(* retryWithBackoff for every maxAttempts (checked under RetrySpec).       *)
(***************************************************************************)

\* The call has ended after at least one invocation of the operation, and a
\* rejection carries an error the operation threw.
InvokedAndOwnError ==
    retry.pc \in {"resolved", "rejected"} =>
        /\ retry.invocations >= 1
        /\ retry.pc = "rejected" =>
              (retry.thrown \in Errors /\ retry.thrown = retry.lastError)

\* C40: retryWithBackoff invokes the operation at least once and, whenever it
\* rejects, rejects with an error thrown by the operation, for every value of
\* maxAttempts including 0 and negative values.
C40_AtLeastOnceForEveryMaxAttempts ==
    retry.onRetry # "throws" => InvokedAndOwnError

\* What holds: the same for maxAttempts >= 1.
AtLeastOnceForPositiveMaxAttempts ==
    (retry.onRetry # "throws" /\ retry.maxAttempts >= 1) => InvokedAndOwnError

====
